---- MODULE Spec2Model ----
(***************************************************************************)
(* Cross-tab presence tracking and session teardown of the tab-management  *)
(* repository.  The repository holds several revisions of the TabTracker   *)
(* and SessionManager classes; each build is modelled by its own group of  *)
(* actions and its own specification over the shared variables below:      *)
(*                                                                         *)
(*   SpecP3   src/unnamed/part_003 (localStorage registry, a sweep that    *)
(*            clears the session) with src/lib/session.ts                  *)
(*   SpecP3R  SpecP3 with the sweep's read and write as two steps          *)
(*   SpecP2   src/unnamed/part_002 (no sweep, the last unload clears the   *)
(*            session) with src/lib/session.ts                             *)
(*   SpecTT   src/lib/tab-tracker.ts (cookie registry) with                *)
(*            src/lib/session-manager.ts and the tabCountChange handler    *)
(*            of src/app/page.tsx                                          *)
(*   SpecTTA  the registry handlers of SpecTT alone                         *)
(*   FairTT   SpecTT with the timers and deliveries of open contexts fair  *)
(*   SpecTTR  the registry handlers of src/lib/tab-tracker.ts, each as a   *)
(*            read step and a write step                                   *)
(*   SpecSM   src/lib/session-manager.ts alone, over a stored session of   *)
(*            any age                                                      *)
(*   SpecLS   src/lib/session.ts with the login, logout and              *)
(*            sessionChange handlers of src/app/page.tsx and the messages  *)
(*            on the session_sync channel                                  *)
(*   SpecLSC  SpecLS with the one username the page passes on and no       *)
(*            clock; FairLSC adds fair handling of queued messages         *)
(*   SpecSB   src/lib/session-manager.ts with the same page handlers and   *)
(*            the messages on the session_sync channel                     *)
(*   SpecSBC  SpecSB with the one username the page passes on and no clock *)
(*   SpecSMR  SpecSM with the session heartbeat's read and writes as two   *)
(*            steps                                                        *)
(*   SpecTL   src/lib/tab-tracker.ts with init() and cleanup() called in   *)
(*            any order, its channel and its listeners                     *)
(*   SpecTLA  the life-cycle calls and page events of SpecTL alone         *)
(*   SpecTLT  the life-cycle calls and timers of SpecTL alone              *)
(*   SpecTM   src/lib/tab-tracker.ts with every heartbeat timer firing on  *)
(*            schedule                                                     *)
(*   SpecP4   src/unnamed/part_004 (activity timestamp, injected session   *)
(*            manager) with src/lib/session.ts                             *)
(*   SpecCK   src/lib/tab-tracker.ts over the text of its cookie, which    *)
(*            another script may have garbled                              *)
(*   SpecCH   src/lib/tab-tracker.ts where the channel may fail to         *)
(*            construct or to post                                         *)
(*   SpecP5   src/unnamed/part_005 (one stored counter), its read and its  *)
(*            write as two steps                                           *)
(*                                                                         *)
(* Contexts (browser tabs) share only the storage and the broadcast        *)
(* channel.  A handler of one context is a single synchronous run and is   *)
(* one action; in the R specifications its read of the stored registry and *)
(* its write of the whole registry are two steps, and handlers of other    *)
(* contexts may run between them.  Time (Date.now(), in milliseconds)      *)
(* advances between handlers only, and starts at 1 (Date.now() is never 0, *)
(* which JavaScript would read as "no timestamp").                         *)
(***************************************************************************)
EXTENDS Integers, FiniteSets, Sequences, TLC

VARIABLES
  now,        \* Date.now()
  st,         \* per context: "new" (page not loaded), "active" (init() ran),
              \* "down" (cleanup() ran), "gone" (page unloaded)
  registry,   \* the stored registry: [present, tabs]
  session,    \* the stored session: [present, username, loginTime (, expires)]
  hbCookie,   \* the session_heartbeat cookie: [present, expires]
  shb,        \* per context: SessionManager.heartbeatInterval is set
  inbox,      \* per context: tab_update messages posted to it and not yet handled
  reloadOf,   \* per context: the unloaded context whose browser tab it was loaded in (0: a new tab)
  ret,        \* per context: what init() / initializeSession() returned last
  pc,         \* per context: the handler it is inside ("idle": none)
  snap,       \* per context: the registry (or the session) its running handler read
  last,       \* history: the step taken last, [op, ctx, n]
  teardowns,  \* history: automatic teardowns since the last registration or login (0, 1, 2 = several)
  own,        \* history: per context, the lastSeen values it wrote to its own entry
  jar,        \* localStorage of the session.ts build: key -> stored session
  sbox,       \* per context: session_sync messages posted to it and not yet handled
  auth,       \* per context: the page's isAuthenticated
  arg,        \* history: the username the last createSession() was called with
  life,       \* per context: [chan: its tab channel is open,
              \*               listeners: sets of unload/visibility listeners attached,
              \*               timers: its interval timers that are set]
  due,        \* per context: when the heartbeat timer it set fires next (0: never set)
  activity,   \* the stored app_last_activity timestamp (0: no such key)
  wired,      \* per context: setSessionManager() gave its tab tracker a session manager
  tabCount    \* the stored app_tab_count text as its decimal digits (<<>>: no such key)

vars == <<now, st, registry, session, hbCookie, shb, inbox, reloadOf, ret, pc, snap,
          last, teardowns, own, jar, sbox, auth, arg, life, due, activity,
          wired, tabCount>>

\* ---------------------------------------------------------------- bounds

NCtx == 2

P3_MaxNow == 6002

P2_MaxNow == 4001

SM_MaxEarly == 5001

SM_MaxNow == 1800002

TT_MaxNow == 15002

TT_MaxInbox == 2

Ctx == 1 .. NCtx

Users == {"admin"}

\* ------------------------------------------------------- storage helpers

EmptyTabs == [x \in {} |-> 0]

Put(f, k, v) == [x \in (DOMAIN f) \cup {k} |-> IF x = k THEN v ELSE f[x]]

Del(f, k) == [x \in (DOMAIN f) \ {k} |-> f[x]]

NoKey == [present |-> FALSE, tabs |-> EmptyTabs]

Stored(tabs) == [present |-> TRUE, tabs |-> tabs]

Step(op, c, n) == last' = [op |-> op, ctx |-> c, n |-> n]

Idle == \A c \in Ctx : pc[c] = "idle"

\* init() ran, neither cleanup() nor an unload since
Active(c) == st[c] = "active"

\* the page is loaded (its unload and visibility listeners are attached)
Open(c) == st[c] \in {"active", "down"}

Bump(n) == IF n >= 2 THEN 2 ELSE n + 1

\* ----------------------------------------------------- src/lib/session.ts

NoSession == [present |-> FALSE, username |-> "", loginTime |-> 0]

\* createSession(username): store {username, loginTime}
SessionCreate(c, u) ==
  /\ st[c] \in {"active", "down"}
  /\ pc[c] = "idle"
  /\ session' = [present |-> TRUE, username |-> u, loginTime |-> now]
  /\ teardowns' = 0
  /\ Step("login", c, 0)
  /\ UNCHANGED <<now, st, registry, hbCookie, shb, inbox, reloadOf, ret, pc, snap, own,
                 jar, sbox, auth, arg,
                 life, due, activity, wired, tabCount>>

\* clearSession(): remove the stored session
SessionClear(c) ==
  /\ st[c] \in {"active", "down"}
  /\ pc[c] = "idle"
  /\ session' = NoSession
  /\ Step("logout", c, 0)
  /\ UNCHANGED <<now, st, registry, hbCookie, shb, inbox, reloadOf, ret, pc, snap, teardowns, own,
                 jar, sbox, auth, arg,
                 life, due, activity, wired, tabCount>>

\* ------------------------------------------------- src/unnamed/part_003

P3_HEARTBEAT_INTERVAL == 1000

P3_TAB_TIMEOUT == 3000

\* getTabRegistry(): the stored mapping, {} when the key is absent
P3_getTabRegistry == IF registry.present THEN registry.tabs ELSE EmptyTabs

\* registerTab(): registry[tabId] = Date.now()
P3_registerTab(tabs, c, t) == Put(tabs, c, t)

\* updateHeartbeat(): if (registry[tabId]) registry[tabId] = Date.now()
P3_updateHeartbeat(tabs, c, t) == IF c \in DOMAIN tabs THEN [tabs EXCEPT ![c] = t] ELSE tabs

\* the forEach of cleanupDeadTabs: the entries it deletes
P3_dead(tabs, t) == {k \in DOMAIN tabs : t - tabs[k] > P3_TAB_TIMEOUT}

\* the registry cleanupDeadTabs is left with after its forEach
P3_afterSweep(tabs, t) == [k \in (DOMAIN tabs) \ P3_dead(tabs, t) |-> tabs[k]]

\* unregister / cleanup(): delete registry[tabId]
P3_unregister(tabs, c) == Del(tabs, c)

\* getTabCount(): entries within the timeout
P3_getTabCount(tabs, t) == Cardinality({k \in DOMAIN tabs : t - tabs[k] <= P3_TAB_TIMEOUT})

\* the page loads and calls init(): registerTab(), both timers start
P3_init(c) ==
  /\ st[c] = "new"
  /\ pc[c] = "idle"
  /\ registry' = Stored(P3_registerTab(P3_getTabRegistry, c, now))
  /\ st' = [st EXCEPT ![c] = "active"]
  /\ teardowns' = 0
  /\ Step("register", c, 0)
  /\ UNCHANGED <<now, session, hbCookie, shb, inbox, reloadOf, ret, pc, snap, own,
                 jar, sbox, auth, arg,
                 life, due, activity, wired, tabCount>>

\* the heartbeat timer: updateHeartbeat() saves only when the entry is there
P3_heartbeat(c) ==
  /\ st[c] = "active"
  /\ pc[c] = "idle"
  /\ registry' = IF c \in DOMAIN P3_getTabRegistry
                   THEN Stored(P3_updateHeartbeat(P3_getTabRegistry, c, now))
                   ELSE registry
  /\ Step("heartbeat", c, 0)
  /\ UNCHANGED <<now, st, session, hbCookie, shb, inbox, reloadOf, ret, pc, snap, teardowns, own,
                 jar, sbox, auth, arg,
                 life, due, activity, wired, tabCount>>

\* the cleanup timer: cleanupDeadTabs() saves when something was deleted and
\* calls clearSession() when nothing remains (removes the registry key and
\* the session, dispatches sessionChange {type: "logout"})
P3_cleanupDeadTabs(c) ==
  /\ st[c] = "active"
  /\ pc[c] = "idle"
  /\ LET tabs == P3_getTabRegistry
         kept == P3_afterSweep(tabs, now)
         hasChanges == P3_dead(tabs, now) # {}
     IN  IF ~hasChanges
           THEN UNCHANGED <<registry, session, teardowns>>
           ELSE IF DOMAIN kept = {}
             THEN /\ registry' = NoKey
                  /\ session' = NoSession
                  /\ teardowns' = Bump(teardowns)
             ELSE /\ registry' = Stored(kept)
                  /\ UNCHANGED <<session, teardowns>>
  /\ Step("sweep", c, Cardinality(P3_dead(P3_getTabRegistry, now)))
  /\ UNCHANGED <<now, st, hbCookie, shb, inbox, reloadOf, ret, pc, snap, own,
                 jar, sbox, auth, arg,
                 life, due, activity, wired, tabCount>>

\* beforeunload / pagehide -> unregister; the page is gone
P3_unload(c) ==
  /\ st[c] \in {"active", "down"}
  /\ pc[c] = "idle"
  /\ registry' = Stored(P3_unregister(P3_getTabRegistry, c))
  /\ st' = [st EXCEPT ![c] = "gone"]
  /\ Step("unload", c, 0)
  /\ UNCHANGED <<now, session, hbCookie, shb, inbox, reloadOf, ret, pc, snap, teardowns, own,
                 jar, sbox, auth, arg,
                 life, due, activity, wired, tabCount>>

\* cleanup(): isInitialized = false, both timers cleared, entry deleted
P3_cleanup(c) ==
  /\ st[c] = "active"
  /\ pc[c] = "idle"
  /\ registry' = Stored(P3_unregister(P3_getTabRegistry, c))
  /\ st' = [st EXCEPT ![c] = "down"]
  /\ Step("cleanup", c, 0)
  /\ UNCHANGED <<now, session, hbCookie, shb, inbox, reloadOf, ret, pc, snap, teardowns, own,
                 jar, sbox, auth, arg,
                 life, due, activity, wired, tabCount>>

P3_TickSteps == {P3_TAB_TIMEOUT, P3_TAB_TIMEOUT + 1}

\* time passes between handlers
P3_Tick(d) ==
  /\ Idle
  /\ now + d <= P3_MaxNow
  /\ now' = now + d
  /\ Step("tick", 0, 0)
  /\ UNCHANGED <<st, registry, session, hbCookie, shb, inbox, reloadOf, ret, pc, snap, teardowns, own,
                 jar, sbox, auth, arg,
                 life, due, activity, wired, tabCount>>

\* nothing stored, no page loaded
InitCommon ==
  /\ now = 1
  /\ st = [c \in Ctx |-> "new"]
  /\ registry = NoKey
  /\ shb = [c \in Ctx |-> FALSE]
  /\ inbox = [c \in Ctx |-> 0]
  /\ reloadOf = [c \in Ctx |-> 0]
  /\ ret = [c \in Ctx |-> FALSE]
  /\ pc = [c \in Ctx |-> "idle"]
  /\ snap = [c \in Ctx |-> EmptyTabs]
  /\ last = [op |-> "none", ctx |-> 0, n |-> 0]
  /\ teardowns = 0
  /\ own = [c \in Ctx |-> {}]
  /\ jar = EmptyTabs
  /\ sbox = [c \in Ctx |-> <<>>]
  /\ auth = [c \in Ctx |-> FALSE]
  /\ arg = ""
  /\ life = [c \in Ctx |-> [chan |-> FALSE, listeners |-> 0, timers |-> {}]]
  /\ due = [c \in Ctx |-> 0]
  /\ activity = 0
  /\ wired = [c \in Ctx |-> FALSE]
  /\ tabCount = <<>>

\* the builds that keep the session in localStorage start without one
LS_Init == InitCommon /\ session = NoSession /\ hbCookie = [present |-> FALSE, expires |-> 0]

P3_Next ==
  \/ \E c \in Ctx : P3_init(c)
  \/ \E c \in Ctx : P3_heartbeat(c)
  \/ \E c \in Ctx : P3_cleanupDeadTabs(c)
  \/ \E c \in Ctx : P3_unload(c)
  \/ \E c \in Ctx : P3_cleanup(c)
  \/ \E c \in Ctx, u \in Users : SessionCreate(c, u)
  \/ \E c \in Ctx : SessionClear(c)
  \/ \E d \in P3_TickSteps : P3_Tick(d)

SpecP3 == LS_Init /\ [][P3_Next]_vars

\* the cleanup timer, first half: cleanupDeadTabs() reads the stored registry
P3_cleanupRead(c) ==
  /\ st[c] = "active"
  /\ pc[c] = "idle"
  /\ snap' = [snap EXCEPT ![c] = P3_getTabRegistry]
  /\ pc' = [pc EXCEPT ![c] = "sweep"]
  /\ Step("sweepread", c, 0)
  /\ UNCHANGED <<now, st, registry, session, hbCookie, shb, inbox, reloadOf, ret, teardowns, own,
                 jar, sbox, auth, arg,
                 life, due, activity, wired, tabCount>>

\* the cleanup timer, second half: the registry it read is filtered and
\* saved, and clearSession() is called when nothing remains in it
P3_cleanupWrite(c) ==
  /\ pc[c] = "sweep"
  /\ LET kept == P3_afterSweep(snap[c], now)
         hasChanges == P3_dead(snap[c], now) # {}
     IN  IF ~hasChanges
           THEN UNCHANGED <<registry, session, teardowns>>
           ELSE IF DOMAIN kept = {}
             THEN /\ registry' = NoKey
                  /\ session' = NoSession
                  /\ teardowns' = Bump(teardowns)
             ELSE /\ registry' = Stored(kept)
                  /\ UNCHANGED <<session, teardowns>>
  /\ pc' = [pc EXCEPT ![c] = "idle"]
  /\ snap' = [snap EXCEPT ![c] = EmptyTabs]
  /\ Step("sweep", c, Cardinality(P3_dead(snap[c], now)))
  /\ UNCHANGED <<now, st, hbCookie, shb, inbox, reloadOf, ret, own,
                 jar, sbox, auth, arg,
                 life, due, activity, wired, tabCount>>

P3R_Next ==
  \/ \E c \in Ctx : P3_init(c)
  \/ \E c \in Ctx : P3_heartbeat(c)
  \/ \E c \in Ctx : P3_cleanupRead(c)
  \/ \E c \in Ctx : P3_cleanupWrite(c)
  \/ \E c \in Ctx : P3_unload(c)
  \/ \E c \in Ctx : P3_cleanup(c)
  \/ \E c \in Ctx, u \in Users : SessionCreate(c, u)
  \/ \E c \in Ctx : SessionClear(c)
  \/ \E d \in P3_TickSteps : P3_Tick(d)

SpecP3R == LS_Init /\ [][P3R_Next]_vars

\* ------------------------------------------------- src/unnamed/part_002
\* The registry is the localStorage key "active_tabs" (tabId -> timestamp).
\* This build has no sweep.  Its tab_update broadcast makes the other
\* contexts dispatch tabCountChange, which the page of src/unnamed/part_000
\* does not listen to, so a delivery changes nothing and is not modelled.

P2_HEARTBEAT_INTERVAL == 2000

\* getActiveTabs(): the stored mapping, {} when the key is absent
P2_getActiveTabs == IF registry.present THEN registry.tabs ELSE EmptyTabs

\* addTab(): tabs[tabId] = Date.now()
P2_addTab(tabs, c, t) == Put(tabs, c, t)

\* removeTab(): the mapping is saved without tabId; when it is empty the
\* session and the registry key are removed
P2_removeTab(c) ==
  LET tabs == Del(P2_getActiveTabs, c)
  IN  IF DOMAIN tabs = {}
        THEN /\ registry' = NoKey
             /\ session' = NoSession
             /\ teardowns' = IF session.present THEN Bump(teardowns) ELSE teardowns
        ELSE /\ registry' = Stored(tabs)
             /\ UNCHANGED <<session, teardowns>>

\* the page loads and calls init(): addTab(), the heartbeat timer starts
P2_init(c) ==
  /\ st[c] = "new"
  /\ pc[c] = "idle"
  /\ registry' = Stored(P2_addTab(P2_getActiveTabs, c, now))
  /\ st' = [st EXCEPT ![c] = "active"]
  /\ teardowns' = 0
  /\ Step("register", c, 0)
  /\ UNCHANGED <<now, session, hbCookie, shb, inbox, reloadOf, ret, pc, snap, own,
                 jar, sbox, auth, arg,
                 life, due, activity, wired, tabCount>>

\* the heartbeat timer (never cleared by an unload, cleared by cleanup())
P2_heartbeat(c) ==
  /\ st[c] = "active"
  /\ pc[c] = "idle"
  /\ registry' = IF c \in DOMAIN P2_getActiveTabs
                   THEN Stored([P2_getActiveTabs EXCEPT ![c] = now])
                   ELSE registry
  /\ Step("heartbeat", c, 0)
  /\ UNCHANGED <<now, st, session, hbCookie, shb, inbox, reloadOf, ret, pc, snap, teardowns, own,
                 jar, sbox, auth, arg,
                 life, due, activity, wired, tabCount>>

\* beforeunload / pagehide -> removeTab(); the page is gone
P2_unload(c) ==
  /\ st[c] \in {"active", "down"}
  /\ pc[c] = "idle"
  /\ P2_removeTab(c)
  /\ st' = [st EXCEPT ![c] = "gone"]
  /\ Step("unload", c, 0)
  /\ UNCHANGED <<now, hbCookie, shb, inbox, reloadOf, ret, pc, snap, own,
                 jar, sbox, auth, arg,
                 life, due, activity, wired, tabCount>>

\* cleanup(): isInitialized = false, the timer cleared, removeTab()
P2_cleanup(c) ==
  /\ st[c] = "active"
  /\ pc[c] = "idle"
  /\ P2_removeTab(c)
  /\ st' = [st EXCEPT ![c] = "down"]
  /\ Step("cleanup", c, 0)
  /\ UNCHANGED <<now, hbCookie, shb, inbox, reloadOf, ret, pc, snap, own,
                 jar, sbox, auth, arg,
                 life, due, activity, wired, tabCount>>

\* time passes between handlers
P2_Tick ==
  /\ Idle
  /\ now + P2_HEARTBEAT_INTERVAL <= P2_MaxNow
  /\ now' = now + P2_HEARTBEAT_INTERVAL
  /\ Step("tick", 0, 0)
  /\ UNCHANGED <<st, registry, session, hbCookie, shb, inbox, reloadOf, ret, pc, snap, teardowns, own,
                 jar, sbox, auth, arg,
                 life, due, activity, wired, tabCount>>

P2_Next ==
  \/ \E c \in Ctx : P2_init(c)
  \/ \E c \in Ctx : P2_heartbeat(c)
  \/ \E c \in Ctx : P2_unload(c)
  \/ \E c \in Ctx : P2_cleanup(c)
  \/ \E c \in Ctx, u \in Users : SessionCreate(c, u)
  \/ \E c \in Ctx : SessionClear(c)
  \/ P2_Tick

SpecP2 == LS_Init /\ [][P2_Next]_vars

\* -------------------------------------------- src/lib/session-manager.ts
\* The session and heartbeat cookies and this context's heartbeat timer are
\* passed through the methods as one record S = [sess, hb, shb], so that a
\* method's calls to other methods compose in the order the code makes them.
\* A cookie past its expires date is deleted by the browser (ExpireCookies).

SM_SESSION_DURATION == 1800000

SM_HEARTBEAT_INTERVAL == 5000

SM_NoCookie == [present |-> FALSE, username |-> "", loginTime |-> 0, expires |-> 0]

SM_NoHeartbeat == [present |-> FALSE, expires |-> 0]

SM_S == [sess |-> session, hb |-> hbCookie, shb |-> shb]

\* getSession(): !session.username || !session.loginTime (sessionId is never empty)
SM_validStructure(s) == s.username # "" /\ s.loginTime # 0

\* clearSession(): stopHeartbeat(), both cookies removed, logout broadcast
SM_clearSession(S, c) ==
  [sess |-> SM_NoCookie, hb |-> SM_NoHeartbeat, shb |-> [S.shb EXCEPT ![c] = FALSE]]

\* getSession(): [val: the session or none, S: the storage afterwards]
SM_getSession(S, c) ==
  IF ~S.sess.present THEN [val |-> SM_NoCookie, S |-> S]
  ELSE IF ~SM_validStructure(S.sess) THEN [val |-> SM_NoCookie, S |-> SM_clearSession(S, c)]
  ELSE [val |-> S.sess, S |-> S]

\* updateHeartbeat(): both cookies rewritten with a fresh expiration
SM_updateHeartbeat(S, c, t) ==
  LET g == SM_getSession(S, c)
  IN  IF ~g.val.present
        THEN [g.S EXCEPT !.shb[c] = FALSE]
        ELSE [g.S EXCEPT !.hb = [present |-> TRUE, expires |-> t + SM_SESSION_DURATION],
                         !.sess = [g.val EXCEPT !.expires = t + SM_SESSION_DURATION]]

\* startHeartbeat(): the interval is set, then the initial updateHeartbeat()
SM_startHeartbeat(S, c, t) == SM_updateHeartbeat([S EXCEPT !.shb[c] = TRUE], c, t)

\* a validateSession() that leaves a session without a heartbeat cookie stored
ValidateKeepsUnbeaten(S, c, t) ==
  LET g == SM_getSession(S, c)
  IN  IF ~g.val.present THEN [ok |-> FALSE, S |-> g.S]
      ELSE IF ~g.S.hb.present THEN [ok |-> FALSE, S |-> g.S]
      ELSE IF t - g.val.loginTime > SM_SESSION_DURATION
        THEN [ok |-> FALSE, S |-> SM_clearSession(g.S, c)]
      ELSE [ok |-> TRUE, S |-> g.S]

\* validateSession(): [ok, S]
SM_validateSession(S, c, t) ==
  LET g == SM_getSession(S, c)
  IN  IF ~g.val.present THEN [ok |-> FALSE, S |-> g.S]
      ELSE IF ~g.S.hb.present THEN [ok |-> FALSE, S |-> SM_clearSession(g.S, c)]
      ELSE IF t - g.val.loginTime > SM_SESSION_DURATION
        THEN [ok |-> FALSE, S |-> SM_clearSession(g.S, c)]
      ELSE [ok |-> TRUE, S |-> g.S]

\* createSession(username): the cookie is set, then startHeartbeat()
SM_createSession(S, c, u, t) ==
  SM_startHeartbeat(
    [S EXCEPT !.sess = [present |-> TRUE, username |-> u, loginTime |-> t,
                        expires |-> t + SM_SESSION_DURATION]], c, t)

\* initializeSession(isTrueFirstTab): [ok, S]
SM_initializeSession(S, c, isTrueFirstTab, t) ==
  IF isTrueFirstTab THEN [ok |-> FALSE, S |-> SM_clearSession(S, c)]
  ELSE LET g == SM_getSession(S, c)
       IN  IF ~g.val.present THEN [ok |-> FALSE, S |-> g.S]
           ELSE LET v == SM_validateSession(g.S, c, t)
                IN  IF v.ok THEN [ok |-> TRUE, S |-> SM_startHeartbeat(v.S, c, t)]
                    ELSE [ok |-> FALSE, S |-> v.S]

SM_store(S) ==
  /\ session' = S.sess
  /\ hbCookie' = S.hb
  /\ shb' = S.shb

\* the browser drops a cookie once its expires date is reached
ExpireCookies(t) ==
  /\ session' = IF session.present /\ t >= session.expires THEN SM_NoCookie ELSE session
  /\ hbCookie' = IF hbCookie.present /\ t >= hbCookie.expires THEN SM_NoHeartbeat ELSE hbCookie

\* handleLogin -> createSession(username)
SM_login(c, u) ==
  /\ st[c] \in {"active", "down"}
  /\ pc[c] = "idle"
  /\ SM_store(SM_createSession(SM_S, c, u, now))
  /\ teardowns' = 0
  /\ Step("login", c, 0)
  /\ UNCHANGED <<now, st, registry, inbox, reloadOf, ret, pc, snap, own,
                 jar, sbox, auth, arg,
                 life, due, activity, wired, tabCount>>

\* handleLogout -> clearSession()
SM_logout(c) ==
  /\ st[c] \in {"active", "down"}
  /\ pc[c] = "idle"
  /\ SM_store(SM_clearSession(SM_S, c))
  /\ Step("logout", c, 0)
  /\ UNCHANGED <<now, st, registry, inbox, reloadOf, ret, pc, snap, teardowns, own,
                 jar, sbox, auth, arg,
                 life, due, activity, wired, tabCount>>

\* the session heartbeat timer -> updateHeartbeat()
SM_heartbeat(c) ==
  /\ st[c] \in {"active", "down"}
  /\ pc[c] = "idle"
  /\ shb[c]
  /\ SM_store(SM_updateHeartbeat(SM_S, c, now))
  /\ Step("sessionbeat", c, 0)
  /\ UNCHANGED <<now, st, registry, inbox, reloadOf, ret, pc, snap, teardowns, own,
                 jar, sbox, auth, arg,
                 life, due, activity, wired, tabCount>>

\* visibilitychange (visible) -> validateSession()
SM_visible(c) ==
  /\ st[c] \in {"active", "down"}
  /\ pc[c] = "idle"
  /\ SM_store(SM_validateSession(SM_S, c, now).S)
  /\ Step("validate", c, 0)
  /\ UNCHANGED <<now, st, registry, inbox, reloadOf, ret, pc, snap, teardowns, own,
                 jar, sbox, auth, arg,
                 life, due, activity, wired, tabCount>>

\* a context starts and calls initializeSession(isTrueFirstTab)
SM_start(c, isTrueFirstTab) ==
  /\ st[c] = "new"
  /\ pc[c] = "idle"
  /\ LET r == SM_initializeSession(SM_S, c, isTrueFirstTab, now)
     IN  /\ SM_store(r.S)
         /\ ret' = [ret EXCEPT ![c] = r.ok]
  /\ st' = [st EXCEPT ![c] = "active"]
  /\ Step(IF isTrueFirstTab THEN "startfirst" ELSE "start", c, 0)
  /\ UNCHANGED <<now, registry, inbox, reloadOf, pc, snap, teardowns, own,
                 jar, sbox, auth, arg,
                 life, due, activity, wired, tabCount>>

\* the page unloads: the timer dies with it
SM_unload(c) ==
  /\ st[c] = "active"
  /\ pc[c] = "idle"
  /\ st' = [st EXCEPT ![c] = "gone"]
  /\ shb' = [shb EXCEPT ![c] = FALSE]
  /\ Step("unload", c, 0)
  /\ UNCHANGED <<now, registry, session, hbCookie, inbox, reloadOf, ret, pc, snap, teardowns, own,
                 jar, sbox, auth, arg,
                 life, due, activity, wired, tabCount>>

\* what the cookie store may hold when the first page loads: nothing, a
\* session left by an earlier run (with or without its heartbeat cookie), or
\* an app_session cookie without a username
SM_StoredAtStart ==
  LET left == [present |-> TRUE, username |-> "admin", loginTime |-> 1,
               expires |-> 1 + SM_SESSION_DURATION]
      beat == [present |-> TRUE, expires |-> 1 + SM_SESSION_DURATION]
  IN  { [sess |-> SM_NoCookie, hb |-> SM_NoHeartbeat],
        [sess |-> left, hb |-> beat],
        [sess |-> left, hb |-> SM_NoHeartbeat],
        [sess |-> [left EXCEPT !.username = ""], hb |-> beat] }

SM_Init ==
  /\ InitCommon
  /\ \E s \in SM_StoredAtStart : session = s.sess /\ hbCookie = s.hb

SM_TickSteps ==
  {SM_HEARTBEAT_INTERVAL, SM_SESSION_DURATION - SM_HEARTBEAT_INTERVAL,
   SM_SESSION_DURATION - SM_HEARTBEAT_INTERVAL + 1}

\* time passes between handlers (a heartbeat interval early on, or most of
\* the session's duration)
SM_Tick(d) ==
  /\ Idle
  /\ now + d <= (IF d = SM_HEARTBEAT_INTERVAL THEN SM_MaxEarly ELSE SM_MaxNow)
  /\ now' = now + d
  /\ ExpireCookies(now')
  /\ Step("tick", 0, 0)
  /\ UNCHANGED <<st, registry, shb, inbox, reloadOf, ret, pc, snap, teardowns, own,
                 jar, sbox, auth, arg,
                 life, due, activity, wired, tabCount>>

SM_Next ==
  \/ \E c \in Ctx, isTrueFirstTab \in BOOLEAN : SM_start(c, isTrueFirstTab)
  \/ \E c \in Ctx, u \in Users : SM_login(c, u)
  \/ \E c \in Ctx : SM_logout(c)
  \/ \E c \in Ctx : SM_heartbeat(c)
  \/ \E c \in Ctx : SM_visible(c)
  \/ \E c \in Ctx : SM_unload(c)
  \/ \E d \in SM_TickSteps : SM_Tick(d)

SpecSM == SM_Init /\ [][SM_Next]_vars

\* ---------------------------------------------- src/lib/tab-tracker.ts
\* The registry is the cookie "active_tabs" (tabId -> {timestamp, lastSeen});
\* it is removed, never stored empty.  The session is the cookie "app_session"
\* that isRefreshScenario() reads and src/lib/session-manager.ts writes.  The
\* tabCountChange handler is the one of src/app/page.tsx (lines 44-56).  The
\* registry cookie's own lifetime (one hour from the last write) is far
\* beyond TT_MaxNow and is not modelled.

TT_CLEANUP_INTERVAL == 10000

TT_TAB_TIMEOUT == 15000

\* isRefreshScenario(): sessionAge < 10000
TT_RECENT == 10000

\* getActiveTabs(): the stored mapping, {} when the cookie is absent
TT_getActiveTabs == IF registry.present THEN registry.tabs ELSE EmptyTabs

\* unregisterTab() / cleanupDeadTabs(): the cookie is removed when nothing remains
TT_save(tabs) == IF DOMAIN tabs = {} THEN NoKey ELSE Stored(tabs)

\* registerTab(): tabs[tabId] = {timestamp: Date.now(), lastSeen: Date.now()}
TT_registerTab(tabs, c, t) == Put(tabs, c, [timestamp |-> t, lastSeen |-> t])

\* a heartbeat that renews every stored entry, not only its own
RenewEvery(tabs, c, t) == [k \in DOMAIN tabs |-> [tabs[k] EXCEPT !.lastSeen = t]]

\* updateTabHeartbeat(): if (tabs[tabId]) tabs[tabId].lastSeen = Date.now()
TT_updateTabHeartbeat(tabs, c, t) ==
  IF c \in DOMAIN tabs THEN [tabs EXCEPT ![c].lastSeen = t] ELSE tabs

\* a sweep that also evicts an entry whose age equals the timeout
EvictAtTimeout(tabs, t) == {k \in DOMAIN tabs : t - tabs[k].lastSeen >= TT_TAB_TIMEOUT}

\* a sweep that deletes one stale entry per call, the lowest tab id first
EvictOnePerCall(tabs, t) ==
  {k \in DOMAIN tabs :
     /\ t - tabs[k].lastSeen > TT_TAB_TIMEOUT
     /\ \A j \in DOMAIN tabs : t - tabs[j].lastSeen > TT_TAB_TIMEOUT => k <= j}

\* the loop of cleanupDeadTabs(): the entries it deletes
TT_dead(tabs, t) == {k \in DOMAIN tabs : t - tabs[k].lastSeen > TT_TAB_TIMEOUT}

\* the mapping cleanupDeadTabs() is left with after its loop
TT_afterSweep(tabs, t) == [k \in (DOMAIN tabs) \ TT_dead(tabs, t) |-> tabs[k]]

\* an unregisterTab() that deletes nothing
ForgetNothing(tabs, c) == tabs

\* unregisterTab(): delete tabs[tabId]
TT_unregisterTab(tabs, c) == Del(tabs, c)

\* getTabCount() / updateTabCount(): every stored key counts
TT_getTabCount(tabs) == Cardinality(DOMAIN tabs)

\* broadcastTabUpdate(): every other context whose channel is open and whose
\* page listens receives tab_update (at most TT_MaxInbox are kept pending)
TT_post(c, box) ==
  [x \in Ctx |-> IF x # c /\ Active(x) /\ box[x] < TT_MaxInbox THEN box[x] + 1 ELSE box[x]]

\* init() line 79 sets the reload marker before isRefreshScenario() (line 45)
\* reads it: whatever the marker was when the page load began, it is set
TT_markerAtCheck(markerBefore) == TRUE

\* isRefreshScenario(): the marker, or a session created less than 10 s ago
TT_isRefreshScenario(wasInitialized, sess, t) ==
  \/ wasInitialized
  \/ sess.present /\ sess.loginTime # 0 /\ t - sess.loginTime < TT_RECENT

\* init(): isTrueFirstTab = !hasExistingTabs && !isRefresh
TT_isTrueFirstTab(markerBefore, tabs, sess, t) ==
  /\ ~(TT_getTabCount(tabs) > 0)
  /\ ~TT_isRefreshScenario(TT_markerAtCheck(markerBefore), sess, t)

\* the browser tabs a new page can be a reload of: unloaded and not reloaded yet
TT_reloadable == {x \in Ctx : st[x] = "gone" /\ \A y \in Ctx : reloadOf[y] # x}

\* the page loads (p = 0: in a new browser tab, else as the reload of the
\* unloaded context p, whose sessionStorage it inherits) and calls init()
TT_init(c, p) ==
  /\ st[c] = "new"
  /\ pc[c] = "idle"
  /\ p \in {0} \cup TT_reloadable
  /\ reloadOf' = [reloadOf EXCEPT ![c] = p]
  /\ ret' = [ret EXCEPT ![c] = TT_isTrueFirstTab(p # 0, TT_getActiveTabs, session, now)]
  /\ registry' = Stored(TT_registerTab(TT_getActiveTabs, c, now))
  /\ inbox' = TT_post(c, inbox)
  /\ st' = [st EXCEPT ![c] = "active"]
  /\ teardowns' = 0
  /\ Step("register", c, 0)
  /\ UNCHANGED <<now, session, hbCookie, shb, pc, snap, own,
                 jar, sbox, auth, arg,
                 life, due, activity, wired, tabCount>>

\* the 3 s heartbeat timer: updateTabHeartbeat()
TT_heartbeat(c) ==
  /\ Active(c)
  /\ pc[c] = "idle"
  /\ registry' = IF c \in DOMAIN TT_getActiveTabs
                   THEN Stored(TT_updateTabHeartbeat(TT_getActiveTabs, c, now))
                   ELSE registry
  /\ Step("heartbeat", c, 0)
  /\ UNCHANGED <<now, st, session, hbCookie, shb, inbox, reloadOf, ret, pc, snap, teardowns, own,
                 jar, sbox, auth, arg,
                 life, due, activity, wired, tabCount>>

\* the cleanup timer: cleanupDeadTabs() saves and broadcasts when it deleted something
TT_cleanupDeadTabs(c) ==
  /\ Active(c)
  /\ pc[c] = "idle"
  /\ IF TT_dead(TT_getActiveTabs, now) # {}
       THEN /\ registry' = TT_save(TT_afterSweep(TT_getActiveTabs, now))
            /\ inbox' = TT_post(c, inbox)
       ELSE UNCHANGED <<registry, inbox>>
  /\ Step("sweep", c, Cardinality(TT_dead(TT_getActiveTabs, now)))
  /\ UNCHANGED <<now, st, session, hbCookie, shb, reloadOf, ret, pc, snap, teardowns, own,
                 jar, sbox, auth, arg,
                 life, due, activity, wired, tabCount>>

\* visibilitychange to visible: validateSession() (the listener of the
\* SessionManager constructor), then registerTab(); after cleanup() the
\* channel is closed and the broadcast throws into the catch
TT_visible(c) ==
  /\ Open(c)
  /\ pc[c] = "idle"
  /\ SM_store(SM_validateSession(SM_S, c, now).S)
  /\ registry' = Stored(TT_registerTab(TT_getActiveTabs, c, now))
  /\ inbox' = IF Active(c) THEN TT_post(c, inbox) ELSE inbox
  /\ teardowns' = 0
  /\ Step("visible", c, 0)
  /\ UNCHANGED <<now, st, reloadOf, ret, pc, snap, own,
                 jar, sbox, auth, arg,
                 life, due, activity, wired, tabCount>>

\* beforeunload / pagehide -> unregisterTab(); the page and its timers are gone
TT_unload(c) ==
  /\ Open(c)
  /\ pc[c] = "idle"
  /\ registry' = TT_save(TT_unregisterTab(TT_getActiveTabs, c))
  /\ inbox' = [(IF Active(c) THEN TT_post(c, inbox) ELSE inbox) EXCEPT ![c] = 0]
  /\ shb' = [shb EXCEPT ![c] = FALSE]
  /\ st' = [st EXCEPT ![c] = "gone"]
  /\ Step("unload", c, 0)
  /\ UNCHANGED <<now, session, hbCookie, reloadOf, ret, pc, snap, teardowns, own,
                 jar, sbox, auth, arg,
                 life, due, activity, wired, tabCount>>

\* cleanup(): both timers cleared, unregisterTab(), the channel closed; the
\* page's effect cleanup has removed its tabCountChange listener
TT_cleanup(c) ==
  /\ Active(c)
  /\ pc[c] = "idle"
  /\ registry' = TT_save(TT_unregisterTab(TT_getActiveTabs, c))
  /\ inbox' = [TT_post(c, inbox) EXCEPT ![c] = 0]
  /\ st' = [st EXCEPT ![c] = "down"]
  /\ Step("cleanup", c, 0)
  /\ UNCHANGED <<now, session, hbCookie, shb, reloadOf, ret, pc, snap, teardowns, own,
                 jar, sbox, auth, arg,
                 life, due, activity, wired, tabCount>>

\* a tab_update is delivered: updateTabCount() dispatches tabCountChange and
\* handleTabCountChange clears the session when count === 0 and one is stored
TT_onTabUpdate(c) ==
  /\ Active(c)
  /\ pc[c] = "idle"
  /\ inbox[c] > 0
  /\ inbox' = [inbox EXCEPT ![c] = @ - 1]
  /\ LET count == TT_getTabCount(TT_getActiveTabs)
         g == SM_getSession(SM_S, c)
     IN  /\ IF count = 0
              THEN IF g.val.present
                     THEN /\ SM_store(SM_clearSession(g.S, c))
                          /\ teardowns' = Bump(teardowns)
                     ELSE /\ SM_store(g.S)
                          /\ UNCHANGED teardowns
              ELSE UNCHANGED <<session, hbCookie, shb, teardowns>>
         /\ Step("tabcount", c, count)
  /\ UNCHANGED <<now, st, registry, reloadOf, ret, pc, snap, own,
                 jar, sbox, auth, arg,
                 life, due, activity, wired, tabCount>>

TT_TickSteps == {TT_CLEANUP_INTERVAL, TT_TAB_TIMEOUT, TT_TAB_TIMEOUT + 1}

\* time passes between handlers
TT_Tick(d) ==
  /\ Idle
  /\ now + d <= TT_MaxNow
  /\ now' = now + d
  /\ ExpireCookies(now')
  /\ Step("tick", 0, 0)
  /\ UNCHANGED <<st, registry, shb, inbox, reloadOf, ret, pc, snap, teardowns, own,
                 jar, sbox, auth, arg,
                 life, due, activity, wired, tabCount>>

\* no page is open, so nothing refreshes the session cookie: time passes
\* until its expires date and the browser drops it
TT_expire ==
  /\ \A c \in Ctx : ~Open(c)
  /\ session.present
  /\ now < session.expires
  /\ now' = session.expires
  /\ ExpireCookies(now')
  /\ Step("expire", 0, 0)
  /\ UNCHANGED <<st, registry, shb, inbox, reloadOf, ret, pc, snap, teardowns, own,
                 jar, sbox, auth, arg,
                 life, due, activity, wired, tabCount>>

\* the builds that keep the session in a cookie start without one
TT_Init == InitCommon /\ session = SM_NoCookie /\ hbCookie = SM_NoHeartbeat

TT_Next ==
  \/ \E c \in Ctx, p \in {0} \cup Ctx : TT_init(c, p)
  \/ \E c \in Ctx : TT_heartbeat(c)
  \/ \E c \in Ctx : TT_cleanupDeadTabs(c)
  \/ \E c \in Ctx : TT_visible(c)
  \/ \E c \in Ctx : TT_unload(c)
  \/ \E c \in Ctx : TT_cleanup(c)
  \/ \E c \in Ctx : TT_onTabUpdate(c)
  \/ \E c \in Ctx, u \in Users : SM_login(c, u)
  \/ \E c \in Ctx : SM_logout(c)
  \/ \E c \in Ctx : SM_heartbeat(c)
  \/ \E d \in TT_TickSteps : TT_Tick(d)
  \/ TT_expire

SpecTT == TT_Init /\ [][TT_Next]_vars

\* the registry handlers of the same build alone: nobody logs in and no
\* tab_update is handled, so that only the registry and the clock move
TTA_Next ==
  \/ \E c \in Ctx, p \in {0} \cup Ctx : TT_init(c, p)
  \/ \E c \in Ctx : TT_heartbeat(c)
  \/ \E c \in Ctx : TT_cleanupDeadTabs(c)
  \/ \E c \in Ctx : TT_visible(c)
  \/ \E c \in Ctx : TT_unload(c)
  \/ \E c \in Ctx : TT_cleanup(c)
  \/ \E d \in TT_TickSteps : TT_Tick(d)

SpecTTA == TT_Init /\ [][TTA_Next]_vars

\* the timers and deliveries of loaded pages run, and time passes; nothing
\* obliges a user to load a page, log in, log out or close a tab
TT_Fairness ==
  /\ \A c \in Ctx : WF_vars(TT_heartbeat(c))
  /\ \A c \in Ctx : WF_vars(TT_cleanupDeadTabs(c))
  /\ \A c \in Ctx : WF_vars(TT_onTabUpdate(c))
  /\ \A c \in Ctx : WF_vars(SM_heartbeat(c))
  /\ WF_vars(\E d \in TT_TickSteps : TT_Tick(d))
  /\ WF_vars(TT_expire)

FairTT == SpecTT /\ TT_Fairness

\* ------------------------- src/lib/tab-tracker.ts, handlers in two steps
\* Each registry handler reads the cookie (getActiveTabs()) in one step and
\* writes the whole mapping back in a later one; handlers of other contexts
\* may run in between.  Only the registry is followed here; the handler a
\* context is inside (pc) tells whose write a step is.

\* the page loads, init() -> registerTab() reads the registry (the
\* re-registration on visibilitychange is left to SpecTT)
TTR_registerRead(c) ==
  /\ st[c] = "new"
  /\ pc[c] = "idle"
  /\ snap' = [snap EXCEPT ![c] = TT_getActiveTabs]
  /\ pc' = [pc EXCEPT ![c] = "reg"]
  /\ st' = [st EXCEPT ![c] = "active"]
  /\ UNCHANGED <<now, registry, session, hbCookie, shb, inbox, reloadOf, ret, teardowns, last, own,
                 jar, sbox, auth, arg,
                 life, due, activity, wired, tabCount>>

\* registerTab() sets its entry in what it read and stores that
TTR_registerWrite(c) ==
  /\ pc[c] = "reg"
  /\ registry' = Stored(TT_registerTab(snap[c], c, now))
  /\ own' = [own EXCEPT ![c] = @ \cup {now}]
  /\ pc' = [pc EXCEPT ![c] = "idle"]
  /\ snap' = [snap EXCEPT ![c] = EmptyTabs]
  /\ UNCHANGED <<now, st, session, hbCookie, shb, inbox, reloadOf, ret, teardowns, last,
                 jar, sbox, auth, arg,
                 life, due, activity, wired, tabCount>>

\* the heartbeat timer: updateTabHeartbeat() reads the registry
TTR_heartbeatRead(c) ==
  /\ Active(c)
  /\ pc[c] = "idle"
  /\ snap' = [snap EXCEPT ![c] = TT_getActiveTabs]
  /\ pc' = [pc EXCEPT ![c] = "hb"]
  /\ UNCHANGED <<now, st, registry, session, hbCookie, shb, inbox, reloadOf, ret, teardowns, last, own,
                 jar, sbox, auth, arg,
                 life, due, activity, wired, tabCount>>

\* updateTabHeartbeat() stores what it read with its lastSeen renewed, when
\* what it read holds its entry
TTR_heartbeatWrite(c) ==
  /\ pc[c] = "hb"
  /\ IF c \in DOMAIN snap[c]
       THEN /\ registry' = Stored(TT_updateTabHeartbeat(snap[c], c, now))
            /\ own' = [own EXCEPT ![c] = @ \cup {now}]
       ELSE UNCHANGED <<registry, own>>
  /\ pc' = [pc EXCEPT ![c] = "idle"]
  /\ snap' = [snap EXCEPT ![c] = EmptyTabs]
  /\ UNCHANGED <<now, st, session, hbCookie, shb, inbox, reloadOf, ret, teardowns, last,
                 jar, sbox, auth, arg,
                 life, due, activity, wired, tabCount>>

\* the cleanup timer: cleanupDeadTabs() reads the registry
TTR_sweepRead(c) ==
  /\ Active(c)
  /\ pc[c] = "idle"
  /\ snap' = [snap EXCEPT ![c] = TT_getActiveTabs]
  /\ pc' = [pc EXCEPT ![c] = "sweep"]
  /\ UNCHANGED <<now, st, registry, session, hbCookie, shb, inbox, reloadOf, ret, teardowns, last, own,
                 jar, sbox, auth, arg,
                 life, due, activity, wired, tabCount>>

\* cleanupDeadTabs() stores what it read without the stale entries, when
\* there were some
TTR_sweepWrite(c) ==
  /\ pc[c] = "sweep"
  /\ registry' = IF TT_dead(snap[c], now) # {}
                   THEN TT_save(TT_afterSweep(snap[c], now))
                   ELSE registry
  /\ pc' = [pc EXCEPT ![c] = "idle"]
  /\ snap' = [snap EXCEPT ![c] = EmptyTabs]
  /\ UNCHANGED <<now, st, session, hbCookie, shb, inbox, reloadOf, ret, teardowns, last, own,
                 jar, sbox, auth, arg,
                 life, due, activity, wired, tabCount>>

\* beforeunload / pagehide: unregisterTab() reads the registry
TTR_unregisterRead(c) ==
  /\ Active(c)
  /\ pc[c] = "idle"
  /\ snap' = [snap EXCEPT ![c] = TT_getActiveTabs]
  /\ pc' = [pc EXCEPT ![c] = "unreg"]
  /\ UNCHANGED <<now, st, registry, session, hbCookie, shb, inbox, reloadOf, ret, teardowns, last, own,
                 jar, sbox, auth, arg,
                 life, due, activity, wired, tabCount>>

\* unregisterTab() stores what it read without its entry; the page is gone
TTR_unregisterWrite(c) ==
  /\ pc[c] = "unreg"
  /\ registry' = TT_save(TT_unregisterTab(snap[c], c))
  /\ st' = [st EXCEPT ![c] = "gone"]
  /\ pc' = [pc EXCEPT ![c] = "idle"]
  /\ snap' = [snap EXCEPT ![c] = EmptyTabs]
  /\ UNCHANGED <<now, session, hbCookie, shb, inbox, reloadOf, ret, teardowns, last, own,
                 jar, sbox, auth, arg,
                 life, due, activity, wired, tabCount>>

\* time passes between handlers
TTR_Tick(d) ==
  /\ Idle
  /\ now + d <= TT_MaxNow
  /\ now' = now + d
  /\ UNCHANGED <<st, registry, session, hbCookie, shb, inbox, reloadOf, ret, pc, snap,
                 teardowns, last, own,
                 jar, sbox, auth, arg,
                 life, due, activity, wired, tabCount>>

TTR_Next ==
  \/ \E c \in Ctx : TTR_registerRead(c)
  \/ \E c \in Ctx : TTR_registerWrite(c)
  \/ \E c \in Ctx : TTR_heartbeatRead(c)
  \/ \E c \in Ctx : TTR_heartbeatWrite(c)
  \/ \E c \in Ctx : TTR_sweepRead(c)
  \/ \E c \in Ctx : TTR_sweepWrite(c)
  \/ \E c \in Ctx : TTR_unregisterRead(c)
  \/ \E c \in Ctx : TTR_unregisterWrite(c)
  \/ \E d \in TT_TickSteps : TTR_Tick(d)

SpecTTR == TT_Init /\ [][TTR_Next]_vars

\* ------------------------------------------- src/lib/session.ts (session_sync)
\* The SessionManager of session.ts with the page of src/app/page.tsx as its
\* caller: the session under one localStorage key, login and logout posted on
\* the session_sync channel, every other loaded page updating isAuthenticated
\* from the sessionChange event.  A context is "active" here from the moment
\* its page effect has run (instance constructed, listener attached).

\* usernames createSession() is called with
Principals == {"admin", "guest"}

LS_SESSION_KEY == "app_session"

LS_Step == 1000

LS_MaxNow == 2001

LS_MaxBox == 1

LS_L == [jar |-> jar, sbox |-> sbox]

\* postMessage on session_sync: queued at every other context whose channel
\* is open, never at the sender
LS_post(c, box, msg) ==
  [x \in Ctx |-> IF x # c /\ st[x] = "active" THEN Append(box[x], msg) ELSE box[x]]

\* a createSession() that leaves a stored session of the same user as it is
CreateKeepsFirst(L, c, u, t) ==
  [jar  |-> IF LS_SESSION_KEY \in DOMAIN L.jar /\ L.jar[LS_SESSION_KEY].username = u
              THEN L.jar
              ELSE Put(L.jar, LS_SESSION_KEY, [username |-> u, loginTime |-> t]),
   sbox |-> LS_post(c, L.sbox, [type |-> "login"])]

\* a createSession() that stores under one key per user
CreateKeyedByUser(L, c, u, t) ==
  [jar  |-> Put(L.jar, u, [username |-> u, loginTime |-> t]),
   sbox |-> LS_post(c, L.sbox, [type |-> "login"])]

\* createSession(username): setItem(SESSION_KEY, {username, loginTime: now}),
\* then post login
LS_createSession(L, c, u, t) ==
  [jar  |-> Put(L.jar, LS_SESSION_KEY, [username |-> u, loginTime |-> t]),
   sbox |-> LS_post(c, L.sbox, [type |-> "login"])]

\* getSession(): whatever is stored under SESSION_KEY, or null
LS_getSession(L) ==
  IF LS_SESSION_KEY \in DOMAIN L.jar
    THEN [present |-> TRUE, username |-> L.jar[LS_SESSION_KEY].username,
          loginTime |-> L.jar[LS_SESSION_KEY].loginTime]
    ELSE NoSession

\* a clearSession() that posts only when it removed something
ClearOnlyIfStored(L, c) ==
  IF LS_SESSION_KEY \in DOMAIN L.jar
    THEN [jar |-> Del(L.jar, LS_SESSION_KEY),
          sbox |-> LS_post(c, L.sbox, [type |-> "logout"])]
    ELSE L

\* clearSession(): removeItem(SESSION_KEY), then post logout
LS_clearSession(L, c) ==
  [jar  |-> Del(L.jar, LS_SESSION_KEY),
   sbox |-> LS_post(c, L.sbox, [type |-> "logout"])]

\* a handleSessionChange that leaves isAuthenticated as it is
KeepsAuthState(a, type) == a

\* handleSessionChange: login sets isAuthenticated, logout resets it
PG_handleSessionChange(a, type) ==
  IF type = "login" THEN TRUE ELSE IF type = "logout" THEN FALSE ELSE a

\* every context a post would reach has room in its queue
LS_room(c) == \A x \in Ctx \ {c} : st[x] = "active" => Len(sbox[x]) < LS_MaxBox

\* what a login or logout found stored: 0 nothing, 1 a session of user u,
\* 2 a session of another user
LS_found(L, u) ==
  IF ~LS_getSession(L).present THEN 0
  ELSE IF LS_getSession(L).username = u THEN 1 ELSE 2

\* page effect on load: construct the instance, getSession(), attach the
\* sessionChange listener
LS_load(c) ==
  /\ st[c] = "new"
  /\ st' = [st EXCEPT ![c] = "active"]
  /\ auth' = [auth EXCEPT ![c] = LS_getSession(LS_L).present]
  /\ Step("load", c, 0)
  /\ UNCHANGED <<now, registry, session, hbCookie, shb, inbox, reloadOf, ret, pc,
                 snap, teardowns, own, jar, sbox, arg,
                 life, due, activity, wired, tabCount>>

\* handleLogin: createSession(u), setIsAuthenticated(true)
LS_login(c, u) ==
  /\ st[c] = "active"
  /\ LS_room(c)
  /\ LET L == LS_createSession(LS_L, c, u, now)
     IN  jar' = L.jar /\ sbox' = L.sbox
  /\ auth' = [auth EXCEPT ![c] = TRUE]
  /\ arg' = u
  /\ Step("login", c, LS_found(LS_L, u))
  /\ UNCHANGED <<now, st, registry, session, hbCookie, shb, inbox, reloadOf, ret,
                 pc, snap, teardowns, own,
                 life, due, activity, wired, tabCount>>

\* handleLogout: clearSession(), setIsAuthenticated(false)
LS_logout(c) ==
  /\ st[c] = "active"
  /\ LS_room(c)
  /\ LET L == LS_clearSession(LS_L, c)
     IN  jar' = L.jar /\ sbox' = L.sbox
  /\ auth' = [auth EXCEPT ![c] = FALSE]
  /\ arg' = ""
  /\ Step("logout", c, IF LS_getSession(LS_L).present THEN 1 ELSE 0)
  /\ UNCHANGED <<now, st, registry, session, hbCookie, shb, inbox, reloadOf, ret,
                 pc, snap, teardowns, own,
                 life, due, activity, wired, tabCount>>

\* the channel listener: dispatch sessionChange, handled by the page
LS_onMessage(c) ==
  /\ st[c] = "active"
  /\ sbox[c] # <<>>
  /\ sbox' = [sbox EXCEPT ![c] = Tail(@)]
  /\ auth' = [auth EXCEPT ![c] = PG_handleSessionChange(@, Head(sbox[c]).type)]
  /\ Step(IF Head(sbox[c]).type = "login" THEN "onlogin" ELSE "onlogout", c, 0)
  /\ UNCHANGED <<now, st, registry, session, hbCookie, shb, inbox, reloadOf, ret,
                 pc, snap, teardowns, own, jar, arg,
                 life, due, activity, wired, tabCount>>

\* the page goes away: its channel and what was queued for it go with it
LS_unload(c) ==
  /\ st[c] = "active"
  /\ st' = [st EXCEPT ![c] = "gone"]
  /\ sbox' = [sbox EXCEPT ![c] = <<>>]
  /\ auth' = [auth EXCEPT ![c] = FALSE]
  /\ Step("unload", c, 0)
  /\ UNCHANGED <<now, registry, session, hbCookie, shb, inbox, reloadOf, ret, pc,
                 snap, teardowns, own, jar, arg,
                 life, due, activity, wired, tabCount>>

LS_Tick ==
  /\ now + LS_Step <= LS_MaxNow
  /\ now' = now + LS_Step
  /\ UNCHANGED <<st, registry, session, hbCookie, shb, inbox, reloadOf, ret, pc,
                 snap, last, teardowns, own, jar, sbox, auth, arg,
                 life, due, activity, wired, tabCount>>

LSB_Next ==
  \/ \E c \in Ctx : LS_load(c)
  \/ \E c \in Ctx : \E u \in Principals : LS_login(c, u)
  \/ \E c \in Ctx : LS_logout(c)
  \/ \E c \in Ctx : LS_onMessage(c)
  \/ \E c \in Ctx : LS_unload(c)
  \/ LS_Tick

SpecLS == LS_Init /\ [][LSB_Next]_vars

\* a queued message is handled as long as the page is there
LS_Fairness == \A c \in Ctx : WF_vars(LS_onMessage(c))

\* the same handlers with the one username the page's handleLogin passes on
\* and no clock
LSC_Next ==
  \/ \E c \in Ctx : LS_load(c)
  \/ \E c \in Ctx : \E u \in Users : LS_login(c, u)
  \/ \E c \in Ctx : LS_logout(c)
  \/ \E c \in Ctx : LS_onMessage(c)
  \/ \E c \in Ctx : LS_unload(c)

SpecLSC == LS_Init /\ [][LSC_Next]_vars

FairLSC == SpecLSC /\ LS_Fairness

\* ---------------------------------- src/lib/session-manager.ts (session_sync)
\* The SessionManager of session-manager.ts with the page of src/app/page.tsx
\* as its caller: cookies as in SpecSM, and in addition the messages on the
\* session_sync channel (each carrying its sender's sessionId) and the page's
\* isAuthenticated.

SB_MaxBox == 1

\* a channel that also queues the message at its sender
PostToAll(c, box, type) ==
  [x \in Ctx |-> IF st[x] = "active"
                   THEN Append(box[x], [type |-> type, from |-> c])
                   ELSE box[x]]

\* postMessage on session_sync: queued at every other context whose channel
\* is open, never at the sender
SB_post(c, box, type) ==
  [x \in Ctx |-> IF x # c /\ st[x] = "active"
                   THEN Append(box[x], [type |-> type, from |-> c])
                   ELSE box[x]]

\* the listener's first line: a message carrying this instance's sessionId
\* is ignored
SB_ignored(c, msg) == msg.from = c

SB_room(c) == \A x \in Ctx \ {c} : st[x] = "active" => Len(sbox[x]) < SB_MaxBox

\* clearSession() ran inside a call that took the storage from S to T
SB_cleared(S, T) == S.sess.present /\ ~T.sess.present

\* the messages queued after a call that took the storage from S to T: each
\* clearSession() posts logout
SB_afterCall(c, S, T) == IF SB_cleared(S, T) THEN SB_post(c, sbox, "logout") ELSE sbox

\* page effect on load: construct the instance, getSession(), attach the
\* sessionChange listener
SB_load(c) ==
  /\ st[c] = "new"
  /\ SB_room(c)
  /\ LET g == SM_getSession(SM_S, c)
     IN  /\ SM_store(g.S)
         /\ auth' = [auth EXCEPT ![c] = g.val.present]
         /\ sbox' = SB_afterCall(c, SM_S, g.S)
  /\ st' = [st EXCEPT ![c] = "active"]
  /\ Step("load", c, 0)
  /\ UNCHANGED <<now, registry, inbox, reloadOf, ret, pc, snap, teardowns, own,
                 jar, arg,
                 life, due, activity, wired, tabCount>>

\* handleLogin: createSession(u) posts login; setIsAuthenticated(true)
SB_login(c, u) ==
  /\ st[c] = "active"
  /\ SB_room(c)
  /\ SM_store(SM_createSession(SM_S, c, u, now))
  /\ sbox' = SB_post(c, sbox, "login")
  /\ auth' = [auth EXCEPT ![c] = TRUE]
  /\ arg' = u
  /\ Step("login", c, 0)
  /\ UNCHANGED <<now, st, registry, inbox, reloadOf, ret, pc, snap, teardowns, own,
                 jar,
                 life, due, activity, wired, tabCount>>

\* handleLogout: clearSession() posts logout; setIsAuthenticated(false)
SB_logout(c) ==
  /\ st[c] = "active"
  /\ SB_room(c)
  /\ SM_store(SM_clearSession(SM_S, c))
  /\ sbox' = SB_post(c, sbox, "logout")
  /\ auth' = [auth EXCEPT ![c] = FALSE]
  /\ arg' = ""
  /\ Step("logout", c, 0)
  /\ UNCHANGED <<now, st, registry, inbox, reloadOf, ret, pc, snap, teardowns, own,
                 jar,
                 life, due, activity, wired, tabCount>>

\* the channel listener: ignore a message of this instance, else dispatch
\* sessionChange, handled by the page; n is the sender
SB_onMessage(c) ==
  /\ st[c] = "active"
  /\ sbox[c] # <<>>
  /\ sbox' = [sbox EXCEPT ![c] = Tail(@)]
  /\ LET msg == Head(sbox[c])
     IN  IF SB_ignored(c, msg)
           THEN /\ UNCHANGED auth
                /\ Step("ignored", c, msg.from)
           ELSE /\ auth' = [auth EXCEPT ![c] = PG_handleSessionChange(@, msg.type)]
                /\ Step(IF msg.type = "login" THEN "onlogin" ELSE "onlogout", c, msg.from)
  /\ UNCHANGED <<now, st, registry, session, hbCookie, shb, inbox, reloadOf, ret,
                 pc, snap, teardowns, own, jar, arg,
                 life, due, activity, wired, tabCount>>

\* the session heartbeat timer -> updateHeartbeat()
SB_heartbeat(c) ==
  /\ st[c] = "active"
  /\ shb[c]
  /\ SB_room(c)
  /\ LET T == SM_updateHeartbeat(SM_S, c, now)
     IN  SM_store(T) /\ sbox' = SB_afterCall(c, SM_S, T)
  /\ Step("sessionbeat", c, 0)
  /\ UNCHANGED <<now, st, registry, inbox, reloadOf, ret, pc, snap, teardowns, own,
                 jar, auth, arg,
                 life, due, activity, wired, tabCount>>

\* visibilitychange (visible) -> validateSession()
SB_visible(c) ==
  /\ st[c] = "active"
  /\ SB_room(c)
  /\ LET T == SM_validateSession(SM_S, c, now).S
     IN  SM_store(T) /\ sbox' = SB_afterCall(c, SM_S, T)
  /\ Step("validate", c, 0)
  /\ UNCHANGED <<now, st, registry, inbox, reloadOf, ret, pc, snap, teardowns, own,
                 jar, auth, arg,
                 life, due, activity, wired, tabCount>>

\* the page goes away: its timer, its channel and what was queued for it go
\* with it
SB_unload(c) ==
  /\ st[c] = "active"
  /\ st' = [st EXCEPT ![c] = "gone"]
  /\ shb' = [shb EXCEPT ![c] = FALSE]
  /\ sbox' = [sbox EXCEPT ![c] = <<>>]
  /\ auth' = [auth EXCEPT ![c] = FALSE]
  /\ Step("unload", c, 0)
  /\ UNCHANGED <<now, registry, session, hbCookie, inbox, reloadOf, ret, pc, snap,
                 teardowns, own, jar, arg,
                 life, due, activity, wired, tabCount>>

SB_Next ==
  \/ \E c \in Ctx : SB_load(c)
  \/ \E c \in Ctx : \E u \in Principals : SB_login(c, u)
  \/ \E c \in Ctx : SB_logout(c)
  \/ \E c \in Ctx : SB_onMessage(c)
  \/ \E c \in Ctx : SB_heartbeat(c)
  \/ \E c \in Ctx : SB_visible(c)
  \/ \E c \in Ctx : SB_unload(c)
  \/ \E d \in SM_TickSteps : SM_Tick(d)

SpecSB == SM_Init /\ [][SB_Next]_vars

\* the same handlers with the one username the page's handleLogin passes on
\* and no clock
SBC_Next ==
  \/ \E c \in Ctx : SB_load(c)
  \/ \E c \in Ctx : \E u \in Users : SB_login(c, u)
  \/ \E c \in Ctx : SB_logout(c)
  \/ \E c \in Ctx : SB_onMessage(c)
  \/ \E c \in Ctx : SB_heartbeat(c)
  \/ \E c \in Ctx : SB_visible(c)
  \/ \E c \in Ctx : SB_unload(c)

SpecSBC == SM_Init /\ [][SBC_Next]_vars

\* ---------------------------------------------------------------------------
\* src/lib/session-manager.ts, updateHeartbeat() as the two steps it takes on
\* the cookie store that every tab shares: its read of the session, and its
\* writes of the two cookies

\* the session heartbeat timer: updateHeartbeat() calls getSession(); without
\* a session it stops the timer and returns
SMR_heartbeatRead(c) ==
  /\ st[c] \in {"active", "down"}
  /\ pc[c] = "idle"
  /\ shb[c]
  /\ LET g == SM_getSession(SM_S, c)
     IN  IF ~g.val.present
           THEN /\ SM_store([g.S EXCEPT !.shb[c] = FALSE])
                /\ UNCHANGED <<pc, snap>>
           ELSE /\ SM_store(g.S)
                /\ pc' = [pc EXCEPT ![c] = "beat"]
                /\ snap' = [snap EXCEPT ![c] = g.val]
  /\ Step("beatread", c, 0)
  /\ UNCHANGED <<now, st, registry, inbox, reloadOf, ret, teardowns, own,
                 jar, sbox, auth, arg,
                 life, due, activity, wired, tabCount>>

\* updateHeartbeat() sets the heartbeat cookie and then the session cookie,
\* holding the session it read, both with a fresh expiration
SMR_heartbeatWrite(c) ==
  /\ pc[c] = "beat"
  /\ hbCookie' = [present |-> TRUE, expires |-> now + SM_SESSION_DURATION]
  /\ session' = [snap[c] EXCEPT !.expires = now + SM_SESSION_DURATION]
  /\ pc' = [pc EXCEPT ![c] = "idle"]
  /\ snap' = [snap EXCEPT ![c] = EmptyTabs]
  /\ Step("beatwrite", c, 0)
  /\ UNCHANGED <<now, st, registry, shb, inbox, reloadOf, ret, teardowns, own,
                 jar, sbox, auth, arg,
                 life, due, activity, wired, tabCount>>

SMR_Next ==
  \/ \E c \in Ctx, isTrueFirstTab \in BOOLEAN : SM_start(c, isTrueFirstTab)
  \/ \E c \in Ctx, u \in Users : SM_login(c, u)
  \/ \E c \in Ctx : SM_logout(c)
  \/ \E c \in Ctx : SMR_heartbeatRead(c)
  \/ \E c \in Ctx : SMR_heartbeatWrite(c)
  \/ \E c \in Ctx : SM_visible(c)
  \/ \E c \in Ctx : SM_unload(c)
  \/ \E d \in SM_TickSteps : SM_Tick(d)

SpecSMR == SM_Init /\ [][SMR_Next]_vars

\* ---------------------------------------------------------------------------
\* src/lib/tab-tracker.ts, the life cycle of the TabTracker singleton: init()
\* and cleanup() as the page may call them, in any order and more than once
\* (the effect of src/app/page.tsx calls cleanup() and then init() again on
\* the same instance whenever isAuthenticated changes)

\* listener sets counted up to this many (the last value: that many or more)
TL_MaxListeners == 2

\* an init() without its guard
NeverReturnsEarly(isInitialized) == FALSE

\* init(): if (this.isInitialized) return false
TL_returnsEarly(isInitialized) == isInitialized

\* broadcastTabUpdate() of a context whose channel is open or closed:
\* postMessage on a closed channel throws into the catch; only an open
\* channel receives
TL_post(c, open, box) ==
  IF open
    THEN [x \in Ctx |-> IF x # c /\ life[x].chan /\ box[x] < TT_MaxInbox
                          THEN box[x] + 1 ELSE box[x]]
    ELSE box

\* addEventListener for beforeunload, pagehide and visibilitychange: one more
\* set of listeners, none is ever removed
TL_listen(n) == IF n < TL_MaxListeners THEN n + 1 ELSE TL_MaxListeners

\* startHeartbeat() and startCleanup(): both intervals are set
TL_started == {"heartbeat", "cleanup"}

\* a cleanup() that clears the heartbeat interval only
LeavesSweepTimer(timers) == timers \ {"heartbeat"}

\* cleanup(): clearInterval(heartbeatInterval), clearInterval(cleanupInterval)
TL_cleared(timers) == {}

\* the page calls getInstance().init(): a page that has not loaded yet
\* constructs the singleton first, which opens the channel; init() returns
\* early when initialized, and otherwise registers, starts both timers and
\* adds its listeners, whether or not cleanup() ran before
TL_init(c) ==
  /\ st[c] \in {"new", "active", "down"}
  /\ pc[c] = "idle"
  /\ IF TL_returnsEarly(Active(c))
       THEN /\ ret' = [ret EXCEPT ![c] = FALSE]
            /\ Step("init", c, 0)
            /\ UNCHANGED <<st, registry, inbox, life, teardowns>>
       ELSE LET open == st[c] = "new" \/ life[c].chan
            IN  /\ ret' = [ret EXCEPT ![c] =
                             TT_isTrueFirstTab(st[c] # "new", TT_getActiveTabs, session, now)]
                /\ registry' = Stored(TT_registerTab(TT_getActiveTabs, c, now))
                /\ inbox' = TL_post(c, open, inbox)
                /\ life' = [life EXCEPT ![c] = [chan |-> open,
                                                listeners |-> TL_listen(@.listeners),
                                                timers |-> TL_started]]
                /\ st' = [st EXCEPT ![c] = "active"]
                /\ teardowns' = 0
                /\ Step("init", c, 1)
  /\ UNCHANGED <<now, session, hbCookie, shb, reloadOf, pc, snap, own,
                 jar, sbox, auth, arg,
                 due, activity, wired, tabCount>>

\* cleanup(), initialized or not: isInitialized = false, both timers cleared,
\* unregisterTab(), the channel closed
TL_cleanup(c) ==
  /\ st[c] \in {"active", "down"}
  /\ pc[c] = "idle"
  /\ registry' = TT_save(TT_unregisterTab(TT_getActiveTabs, c))
  /\ inbox' = [TL_post(c, life[c].chan, inbox) EXCEPT ![c] = 0]
  /\ life' = [life EXCEPT ![c].chan = FALSE, ![c].timers = TL_cleared(@)]
  /\ st' = [st EXCEPT ![c] = "down"]
  /\ Step("cleanup", c, 0)
  /\ UNCHANGED <<now, session, hbCookie, shb, reloadOf, ret, pc, snap, teardowns, own,
                 jar, sbox, auth, arg,
                 due, activity, wired, tabCount>>

\* the heartbeat interval, while it is set: updateTabHeartbeat()
TL_heartbeat(c) ==
  /\ "heartbeat" \in life[c].timers
  /\ pc[c] = "idle"
  /\ registry' = IF c \in DOMAIN TT_getActiveTabs
                   THEN Stored(TT_updateTabHeartbeat(TT_getActiveTabs, c, now))
                   ELSE registry
  /\ Step("heartbeat", c, 0)
  /\ UNCHANGED <<now, st, session, hbCookie, shb, inbox, reloadOf, ret, pc, snap, teardowns, own,
                 jar, sbox, auth, arg,
                 life, due, activity, wired, tabCount>>

\* the cleanup interval, while it is set: cleanupDeadTabs()
TL_cleanupDeadTabs(c) ==
  /\ "cleanup" \in life[c].timers
  /\ pc[c] = "idle"
  /\ IF TT_dead(TT_getActiveTabs, now) # {}
       THEN /\ registry' = TT_save(TT_afterSweep(TT_getActiveTabs, now))
            /\ inbox' = TL_post(c, life[c].chan, inbox)
       ELSE UNCHANGED <<registry, inbox>>
  /\ Step("sweep", c, Cardinality(TT_dead(TT_getActiveTabs, now)))
  /\ UNCHANGED <<now, st, session, hbCookie, shb, reloadOf, ret, pc, snap, teardowns, own,
                 jar, sbox, auth, arg,
                 life, due, activity, wired, tabCount>>

\* visibilitychange to visible, in a page that has added the listeners:
\* validateSession() (the SessionManager's listener), then registerTab()
TL_visible(c) ==
  /\ life[c].listeners > 0
  /\ pc[c] = "idle"
  /\ SM_store(SM_validateSession(SM_S, c, now).S)
  /\ registry' = Stored(TT_registerTab(TT_getActiveTabs, c, now))
  /\ inbox' = TL_post(c, life[c].chan, inbox)
  /\ teardowns' = 0
  /\ Step("visible", c, 0)
  /\ UNCHANGED <<now, st, reloadOf, ret, pc, snap, own,
                 jar, sbox, auth, arg,
                 life, due, activity, wired, tabCount>>

\* beforeunload / pagehide: unregisterTab(); the page is gone with its timers,
\* listeners and channel
TL_unload(c) ==
  /\ life[c].listeners > 0
  /\ pc[c] = "idle"
  /\ registry' = TT_save(TT_unregisterTab(TT_getActiveTabs, c))
  /\ inbox' = [TL_post(c, life[c].chan, inbox) EXCEPT ![c] = 0]
  /\ life' = [life EXCEPT ![c] = [chan |-> FALSE, listeners |-> 0, timers |-> {}]]
  /\ shb' = [shb EXCEPT ![c] = FALSE]
  /\ st' = [st EXCEPT ![c] = "gone"]
  /\ Step("unload", c, 0)
  /\ UNCHANGED <<now, session, hbCookie, reloadOf, ret, pc, snap, teardowns, own,
                 jar, sbox, auth, arg,
                 due, activity, wired, tabCount>>

TL_Next ==
  \/ \E c \in Ctx : TL_init(c)
  \/ \E c \in Ctx : TL_cleanup(c)
  \/ \E c \in Ctx : TL_heartbeat(c)
  \/ \E c \in Ctx : TL_cleanupDeadTabs(c)
  \/ \E c \in Ctx : TL_visible(c)
  \/ \E c \in Ctx : TL_unload(c)
  \/ \E c \in Ctx : TT_onTabUpdate(c)
  \/ \E d \in TT_TickSteps : TT_Tick(d)

SpecTL == TT_Init /\ [][TL_Next]_vars

\* the life-cycle calls and the page's events alone, with time passing and
\* no timer handler running
TLA_Next ==
  \/ \E c \in Ctx : TL_init(c)
  \/ \E c \in Ctx : TL_cleanup(c)
  \/ \E c \in Ctx : TL_visible(c)
  \/ \E c \in Ctx : TL_unload(c)
  \/ \E d \in TT_TickSteps : TT_Tick(d)

SpecTLA == TT_Init /\ [][TLA_Next]_vars

\* the life-cycle calls and the two timers alone, with time passing
TLT_Next ==
  \/ \E c \in Ctx : TL_init(c)
  \/ \E c \in Ctx : TL_cleanup(c)
  \/ \E c \in Ctx : TL_heartbeat(c)
  \/ \E c \in Ctx : TL_cleanupDeadTabs(c)
  \/ \E d \in TT_TickSteps : TT_Tick(d)

SpecTLT == TT_Init /\ [][TLT_Next]_vars

\* ---------------------------------------------------------------------------
\* src/lib/tab-tracker.ts with its heartbeat timer on schedule: the timer of
\* an initialized context fires every 3 s after init(), and time does not
\* pass a firing that is due

TM_MaxNow == 18001

\* a heartbeat timer whose period is longer than the liveness timeout
BeatsAfterTimeout(t) == t + TT_TAB_TIMEOUT + 1

\* startHeartbeat(): setInterval(..., 3000): when the timer set or fired at t
\* fires next
TM_nextBeat(t) == t + 3000

\* time passes in steps of at most one heartbeat period
TM_Step == TM_nextBeat(0)

\* the page loads in a new browser tab and calls init(): registerTab(), and
\* the heartbeat timer is set
TM_init(c) ==
  /\ st[c] = "new"
  /\ pc[c] = "idle"
  /\ ret' = [ret EXCEPT ![c] = TT_isTrueFirstTab(FALSE, TT_getActiveTabs, session, now)]
  /\ registry' = Stored(TT_registerTab(TT_getActiveTabs, c, now))
  /\ inbox' = TT_post(c, inbox)
  /\ st' = [st EXCEPT ![c] = "active"]
  /\ due' = [due EXCEPT ![c] = TM_nextBeat(now)]
  /\ teardowns' = 0
  /\ Step("register", c, 0)
  /\ UNCHANGED <<now, session, hbCookie, shb, reloadOf, pc, snap, own,
                 jar, sbox, auth, arg,
                 life, activity, wired, tabCount>>

\* the heartbeat timer fires when it is due: updateTabHeartbeat()
TM_heartbeat(c) ==
  /\ Active(c)
  /\ pc[c] = "idle"
  /\ now = due[c]
  /\ registry' = IF c \in DOMAIN TT_getActiveTabs
                   THEN Stored(TT_updateTabHeartbeat(TT_getActiveTabs, c, now))
                   ELSE registry
  /\ due' = [due EXCEPT ![c] = TM_nextBeat(now)]
  /\ Step("heartbeat", c, 0)
  /\ UNCHANGED <<now, st, session, hbCookie, shb, inbox, reloadOf, ret, pc, snap, teardowns, own,
                 jar, sbox, auth, arg,
                 life, activity, wired, tabCount>>

\* the firing times of the running heartbeat timers
TM_pending == {due[c] : c \in {x \in Ctx : Active(x)}}

\* the earliest of a set of times
TM_earliest(T) == CHOOSE t \in T : \A u \in T : t <= u

\* time passes, up to the next firing of a heartbeat timer
TM_Tick ==
  /\ Idle
  /\ \A t \in TM_pending : now < t
  /\ now' = TM_earliest(TM_pending \cup {now + TM_Step})
  /\ now' <= TM_MaxNow
  /\ ExpireCookies(now')
  /\ Step("tick", 0, 0)
  /\ UNCHANGED <<st, registry, shb, inbox, reloadOf, ret, pc, snap, teardowns, own,
                 jar, sbox, auth, arg,
                 life, due, activity, wired, tabCount>>

\* the browser ends a page without running its unload handlers (a crash, a
\* killed process, a discarded background tab): its timers are gone, its
\* entry stays
TM_kill(c) ==
  /\ Active(c)
  /\ pc[c] = "idle"
  /\ st' = [st EXCEPT ![c] = "gone"]
  /\ inbox' = [inbox EXCEPT ![c] = 0]
  /\ Step("kill", c, 0)
  /\ UNCHANGED <<now, registry, session, hbCookie, shb, reloadOf, ret, pc, snap, teardowns, own,
                 jar, sbox, auth, arg,
                 life, due, activity, wired, tabCount>>

TM_Next ==
  \/ \E c \in Ctx : TM_init(c)
  \/ \E c \in Ctx : TM_heartbeat(c)
  \/ \E c \in Ctx : TT_cleanupDeadTabs(c)
  \/ \E c \in Ctx : TT_unload(c)
  \/ \E c \in Ctx : TM_kill(c)
  \/ TM_Tick

SpecTM == TT_Init /\ [][TM_Next]_vars

\* ---------------------------------------------------------------------------
\* src/unnamed/part_004: the TabTracker that keeps app_last_activity beside
\* the registry, clears the session through an injected session manager and
\* reopens its channel when it posts.  The session is the one of
\* src/lib/session.ts.

P4_SESSION_TIMEOUT == 5000

P4_HEARTBEAT_INTERVAL == 1000

P4_MaxNow == 10003

P4_MaxBox == 1

\* getTabRegistry(): the stored mapping (tab -> timestamp), {} without the key
P4_getTabRegistry == IF registry.present THEN registry.tabs ELSE EmptyTabs

\* registerTab(): registry[tabId] = {timestamp: Date.now(), active: true}
P4_registerTab(tabs, c, t) == Put(tabs, c, t)

\* the heartbeat: if (registry[tabId]) registry[tabId].timestamp = Date.now()
P4_beat(tabs, c, t) == IF c \in DOMAIN tabs THEN Put(tabs, c, t) ELSE tabs

\* the forEach of cleanupDeadTabs(): the entries it deletes
P4_dead(tabs, t) == {k \in DOMAIN tabs : t - tabs[k] > P4_SESSION_TIMEOUT}

\* the registry cleanupDeadTabs() is left with
P4_afterSweep(tabs, t) == [k \in (DOMAIN tabs) \ P4_dead(tabs, t) |-> tabs[k]]

\* cleanupDeadTabs() calls clearSessionDueToNoTabs(), which dispatches
\* sessionChange {type: "logout"}: something was deleted and nothing remains
P4_emitsLogout(tabs, t) ==
  P4_dead(tabs, t) # {} /\ DOMAIN P4_afterSweep(tabs, t) = {}

\* checkSessionValidity(): lastActivity && now - lastActivity > SESSION_TIMEOUT
P4_inactive(act, t) == act # 0 /\ t - act > P4_SESSION_TIMEOUT

\* if (this.sessionManager) this.sessionManager.clearSession()
P4_clearSession(sess, hasManager) == IF hasManager THEN NoSession ELSE sess

\* safeBroadcast(): the message reaches the other contexts whose channel is
\* open; the sender's own channel is reopened when it was closed
P4_post(c, box) ==
  [x \in Ctx |-> IF x # c /\ life[x].chan /\ box[x] < P4_MaxBox
                   THEN box[x] + 1 ELSE box[x]]

\* the page loads, injects the session manager or not, and calls init():
\* checkSessionValidity(), registerTab(), both timers, the listeners.  After
\* inactivity the registry and the activity key are removed, the session is
\* cleared through the manager, and the logout notification is left to a
\* 100 ms timeout.  cleanup() resets isInitialized, so init() runs again
\* after it.  registerTab() calls localStorage.setItem() unguarded: when the
\* write throws (the quota is exceeded), the exception leaves init() before
\* updateLastActivity(), the broadcast, the timers, the listeners and
\* isInitialized = true
P4_init(c, hasManager, writeThrows) ==
  /\ \/ st[c] = "new"
     \/ st[c] = "down" /\ hasManager = wired[c]
  /\ pc[c] = "idle"
  /\ wired' = [wired EXCEPT ![c] = hasManager]
  /\ LET inactive == P4_inactive(activity, now)
         tabs == IF inactive THEN EmptyTabs ELSE P4_getTabRegistry
     IN  /\ session' = IF inactive THEN P4_clearSession(session, hasManager) ELSE session
         /\ pc' = [pc EXCEPT ![c] = IF inactive THEN "notify" ELSE "idle"]
         /\ IF writeThrows
              THEN /\ registry' = IF inactive THEN NoKey ELSE registry
                   /\ activity' = IF inactive THEN 0 ELSE activity
                   /\ life' = [life EXCEPT ![c].chan = TRUE]
                   /\ Step("initthrows", c, 0)
                   /\ UNCHANGED <<inbox, st, teardowns>>
              ELSE /\ registry' = Stored(P4_registerTab(tabs, c, now))
                   /\ activity' = now
                   /\ inbox' = P4_post(c, inbox)
                   /\ life' = [life EXCEPT ![c] = [chan |-> TRUE, listeners |-> 1,
                                                   timers |-> {"heartbeat", "cleanup"}]]
                   /\ st' = [st EXCEPT ![c] = "active"]
                   /\ teardowns' = 0
                   /\ Step("register", c, 0)
  /\ UNCHANGED <<now, hbCookie, shb, reloadOf, ret, snap, own,
                 jar, sbox, auth, arg,
                 due, tabCount>>

\* the timeout of checkSessionValidity() fires: sessionChange {type: "logout"}
P4_notify(c) ==
  /\ pc[c] = "notify"
  /\ pc' = [pc EXCEPT ![c] = "idle"]
  /\ Step("logoutnote", c, 0)
  /\ UNCHANGED <<now, st, registry, session, hbCookie, shb, inbox, reloadOf, ret, snap,
                 teardowns, own, jar, sbox, auth, arg,
                 life, due, activity, wired, tabCount>>

\* the heartbeat interval: the own entry renewed when it is stored, then a
\* heartbeat message to the other tabs
P4_heartbeat(c) ==
  /\ "heartbeat" \in life[c].timers
  /\ pc[c] = "idle"
  /\ IF c \in DOMAIN P4_getTabRegistry
       THEN /\ registry' = Stored(P4_beat(P4_getTabRegistry, c, now))
            /\ activity' = now
       ELSE UNCHANGED <<registry, activity>>
  /\ inbox' = P4_post(c, inbox)
  /\ life' = [life EXCEPT ![c].chan = TRUE]
  /\ Step("heartbeat", c, 0)
  /\ UNCHANGED <<now, st, session, hbCookie, shb, reloadOf, ret, pc, snap, teardowns, own,
                 jar, sbox, auth, arg,
                 due, wired, tabCount>>

\* the cleanup interval: cleanupDeadTabs() stores what is left when it
\* deleted something, and with nothing left clearSessionDueToNoTabs()
\* removes the activity key, clears the session through the manager and
\* dispatches the logout notification
P4_cleanupDeadTabs(c) ==
  /\ "cleanup" \in life[c].timers
  /\ pc[c] = "idle"
  /\ LET tabs == P4_getTabRegistry
     IN  IF P4_dead(tabs, now) = {}
           THEN UNCHANGED <<registry, session, activity, teardowns>>
           ELSE /\ registry' = Stored(P4_afterSweep(tabs, now))
                /\ IF P4_emitsLogout(tabs, now)
                     THEN /\ activity' = 0
                          /\ session' = P4_clearSession(session, wired[c])
                          /\ teardowns' = Bump(teardowns)
                     ELSE UNCHANGED <<session, activity, teardowns>>
  /\ Step("sweep", c, Cardinality(P4_dead(P4_getTabRegistry, now)))
  /\ UNCHANGED <<now, st, hbCookie, shb, inbox, reloadOf, ret, pc, snap, own,
                 jar, sbox, auth, arg,
                 life, due, wired, tabCount>>

\* a tab_opened, tab_closed or heartbeat message is delivered:
\* updateLastActivity() and a tabCountChange
P4_onMessage(c) ==
  /\ life[c].chan
  /\ pc[c] = "idle"
  /\ inbox[c] > 0
  /\ inbox' = [inbox EXCEPT ![c] = @ - 1]
  /\ activity' = now
  /\ Step("message", c, 0)
  /\ UNCHANGED <<now, st, registry, session, hbCookie, shb, reloadOf, ret, pc, snap,
                 teardowns, own, jar, sbox, auth, arg,
                 life, due, wired, tabCount>>

\* visibilitychange to visible: registerTab()
P4_visible(c) ==
  /\ life[c].listeners > 0
  /\ pc[c] = "idle"
  /\ registry' = Stored(P4_registerTab(P4_getTabRegistry, c, now))
  /\ activity' = now
  /\ inbox' = P4_post(c, inbox)
  /\ life' = [life EXCEPT ![c].chan = TRUE]
  /\ teardowns' = 0
  /\ Step("visible", c, 0)
  /\ UNCHANGED <<now, st, session, hbCookie, shb, reloadOf, ret, pc, snap, own,
                 jar, sbox, auth, arg,
                 due, wired, tabCount>>

\* visibilitychange to hidden: updateLastActivity()
P4_hidden(c) ==
  /\ life[c].listeners > 0
  /\ pc[c] = "idle"
  /\ activity' = now
  /\ Step("hidden", c, 0)
  /\ UNCHANGED <<now, st, registry, session, hbCookie, shb, inbox, reloadOf, ret, pc, snap,
                 teardowns, own, jar, sbox, auth, arg,
                 life, due, wired, tabCount>>

\* beforeunload / pagehide: unregisterTab() stores the registry without the
\* own entry, updates the activity and posts tab_closed; the page is gone
P4_unload(c) ==
  /\ life[c].listeners > 0
  /\ registry' = Stored(Del(P4_getTabRegistry, c))
  /\ activity' = now
  /\ inbox' = [P4_post(c, inbox) EXCEPT ![c] = 0]
  /\ life' = [life EXCEPT ![c] = [chan |-> FALSE, listeners |-> 0, timers |-> {}]]
  /\ pc' = [pc EXCEPT ![c] = "idle"]
  /\ st' = [st EXCEPT ![c] = "gone"]
  /\ Step("unload", c, 0)
  /\ UNCHANGED <<now, session, hbCookie, shb, reloadOf, ret, snap, teardowns, own,
                 jar, sbox, auth, arg,
                 due, wired, tabCount>>

\* cleanup(): both intervals cleared, unregisterTab(), the channel closed
P4_cleanup(c) ==
  /\ st[c] \in {"active", "down"}
  /\ pc[c] = "idle"
  /\ registry' = Stored(Del(P4_getTabRegistry, c))
  /\ activity' = now
  /\ inbox' = [P4_post(c, inbox) EXCEPT ![c] = 0]
  /\ life' = [life EXCEPT ![c].chan = FALSE, ![c].timers = {}]
  /\ st' = [st EXCEPT ![c] = "down"]
  /\ Step("cleanup", c, 0)
  /\ UNCHANGED <<now, session, hbCookie, shb, reloadOf, ret, pc, snap, teardowns, own,
                 jar, sbox, auth, arg,
                 due, wired, tabCount>>

\* the clock is observed once the inactivity timeout has passed
P4_TickSteps == {P4_SESSION_TIMEOUT + 1}

\* time passes between handlers
P4_Tick(d) ==
  /\ Idle
  /\ now + d <= P4_MaxNow
  /\ now' = now + d
  /\ Step("tick", 0, 0)
  /\ UNCHANGED <<st, registry, session, hbCookie, shb, inbox, reloadOf, ret, pc, snap,
                 teardowns, own, jar, sbox, auth, arg,
                 life, due, activity, wired, tabCount>>

P4_Next ==
  \/ \E c \in Ctx, hasManager, writeThrows \in BOOLEAN :
       P4_init(c, hasManager, writeThrows)
  \/ \E c \in Ctx : P4_notify(c)
  \/ \E c \in Ctx : P4_heartbeat(c)
  \/ \E c \in Ctx : P4_cleanupDeadTabs(c)
  \/ \E c \in Ctx : P4_onMessage(c)
  \/ \E c \in Ctx : P4_visible(c)
  \/ \E c \in Ctx : P4_hidden(c)
  \/ \E c \in Ctx : P4_unload(c)
  \/ \E c \in Ctx : P4_cleanup(c)
  \/ \E c \in Ctx, u \in Users : SessionCreate(c, u)
  \/ \E c \in Ctx : SessionClear(c)
  \/ \E d \in P4_TickSteps : P4_Tick(d)

SpecP4 == LS_Init /\ [][P4_Next]_vars

\* ---------------------------------------------------------------------------
\* src/lib/tab-tracker.ts over the text of its active_tabs cookie.  The
\* cookie holds what setJSON() wrote (Stored(tabs): the URI-encoded JSON of
\* the mapping) or a text some other script of the origin wrote: "notjson"
\* (decodes, JSON.parse() throws) or "badescape" (a malformed % escape:
\* decodeURIComponent() throws).

CK_MaxNow == 15002

CK_Forms == {"notjson", "badescape"}

\* the cookie with a text that is not the encoding of a mapping
CK_Garbled(form) == [present |-> TRUE, tabs |-> EmptyTabs, form |-> form]

CK_form(cookie) == IF "form" \in DOMAIN cookie THEN cookie.form ELSE "json"

\* CookieManager.get(): null without the cookie, else
\* decodeURIComponent(value), which throws a URIError on a malformed escape
CK_get(cookie) ==
  IF ~cookie.present THEN [throws |-> FALSE, text |-> "null"]
  ELSE IF CK_form(cookie) = "badescape" THEN [throws |-> TRUE, text |-> "null"]
  ELSE [throws |-> FALSE, text |-> CK_form(cookie)]

\* CookieManager.getJSON(): get() is called outside the try; JSON.parse()
\* inside it, so a text that is not JSON gives null
CK_getJSON(cookie) ==
  LET g == CK_get(cookie)
  IN  IF g.throws THEN [throws |-> TRUE, null |-> TRUE, tabs |-> EmptyTabs]
      ELSE IF g.text = "json" THEN [throws |-> FALSE, null |-> FALSE, tabs |-> cookie.tabs]
      ELSE [throws |-> FALSE, null |-> TRUE, tabs |-> EmptyTabs]

\* getActiveTabs(): getJSON(...) || {}
CK_getActiveTabs ==
  LET j == CK_getJSON(registry)
  IN  [throws |-> j.throws, tabs |-> IF j.null THEN EmptyTabs ELSE j.tabs]

\* the stored value is present and is not the encoding of a mapping
CK_unparsable(cookie) == cookie.present /\ CK_form(cookie) # "json"

\* the page loads and calls init(): getActiveTabs() at line 85 and in
\* registerTab() are outside any try, so their exception leaves init()
CK_init(c) ==
  /\ st[c] = "new"
  /\ pc[c] = "idle"
  /\ LET a == CK_getActiveTabs
     IN  IF a.throws
           THEN /\ Step("threw", c, 0)
                /\ UNCHANGED <<registry, inbox, st, teardowns, ret>>
           ELSE /\ ret' = [ret EXCEPT ![c] = TT_isTrueFirstTab(FALSE, a.tabs, session, now)]
                /\ registry' = Stored(TT_registerTab(a.tabs, c, now))
                /\ inbox' = TT_post(c, inbox)
                /\ st' = [st EXCEPT ![c] = "active"]
                /\ teardowns' = 0
                /\ Step("register", c, 0)
  /\ UNCHANGED <<now, session, hbCookie, shb, reloadOf, pc, snap, own,
                 jar, sbox, auth, arg,
                 life, due, activity, wired, tabCount>>

\* the 3 s heartbeat timer: updateTabHeartbeat()
CK_heartbeat(c) ==
  /\ Active(c)
  /\ pc[c] = "idle"
  /\ LET a == CK_getActiveTabs
     IN  IF a.throws
           THEN /\ Step("threw", c, 1)
                /\ UNCHANGED registry
           ELSE /\ registry' = IF c \in DOMAIN a.tabs
                                 THEN Stored(TT_updateTabHeartbeat(a.tabs, c, now))
                                 ELSE registry
                /\ Step("heartbeat", c, 0)
  /\ UNCHANGED <<now, st, session, hbCookie, shb, inbox, reloadOf, ret, pc, snap, teardowns, own,
                 jar, sbox, auth, arg,
                 life, due, activity, wired, tabCount>>

\* the cleanup timer: cleanupDeadTabs()
CK_cleanupDeadTabs(c) ==
  /\ Active(c)
  /\ pc[c] = "idle"
  /\ LET a == CK_getActiveTabs
     IN  IF a.throws
           THEN /\ Step("threw", c, 2)
                /\ UNCHANGED <<registry, inbox>>
           ELSE IF TT_dead(a.tabs, now) = {}
             THEN /\ Step("sweep", c, 0)
                  /\ UNCHANGED <<registry, inbox>>
             ELSE /\ registry' = TT_save(TT_afterSweep(a.tabs, now))
                  /\ inbox' = TT_post(c, inbox)
                  /\ Step("sweep", c, Cardinality(TT_dead(a.tabs, now)))
  /\ UNCHANGED <<now, st, session, hbCookie, shb, reloadOf, ret, pc, snap, teardowns, own,
                 jar, sbox, auth, arg,
                 life, due, activity, wired, tabCount>>

\* beforeunload / pagehide: unregisterTab(), then the page is gone
CK_unload(c) ==
  /\ Active(c)
  /\ LET a == CK_getActiveTabs
     IN  IF a.throws
           THEN /\ Step("threw", c, 3)
                /\ inbox' = [inbox EXCEPT ![c] = 0]
                /\ UNCHANGED registry
           ELSE /\ registry' = TT_save(TT_unregisterTab(a.tabs, c))
                /\ inbox' = [TT_post(c, inbox) EXCEPT ![c] = 0]
                /\ Step("unload", c, 0)
  /\ pc' = [pc EXCEPT ![c] = "idle"]
  /\ st' = [st EXCEPT ![c] = "gone"]
  /\ UNCHANGED <<now, session, hbCookie, shb, reloadOf, ret, snap, teardowns, own,
                 jar, sbox, auth, arg,
                 life, due, activity, wired, tabCount>>

\* a tab_update is delivered: updateTabCount() dispatches tabCountChange,
\* and the page clears the session on a count of 0
CK_onTabUpdate(c) ==
  /\ Active(c)
  /\ pc[c] = "idle"
  /\ inbox[c] > 0
  /\ inbox' = [inbox EXCEPT ![c] = @ - 1]
  /\ LET a == CK_getActiveTabs
         count == TT_getTabCount(a.tabs)
         g == SM_getSession(SM_S, c)
     IN  IF a.throws
           THEN /\ Step("threw", c, 4)
                /\ UNCHANGED <<session, hbCookie, shb, teardowns>>
           ELSE /\ IF count = 0
                     THEN IF g.val.present
                            THEN /\ SM_store(SM_clearSession(g.S, c))
                                 /\ teardowns' = Bump(teardowns)
                            ELSE /\ SM_store(g.S)
                                 /\ UNCHANGED teardowns
                     ELSE UNCHANGED <<session, hbCookie, shb, teardowns>>
                /\ Step("tabcount", c, count)
  /\ UNCHANGED <<now, st, registry, reloadOf, ret, pc, snap, own,
                 jar, sbox, auth, arg,
                 life, due, activity, wired, tabCount>>

\* another script of the origin overwrites the cookie with a text that is
\* not the encoding of a mapping
CK_corrupt(form) ==
  /\ Idle
  /\ registry' = CK_Garbled(form)
  /\ Step("corrupt", 0, 0)
  /\ UNCHANGED <<now, st, session, hbCookie, shb, inbox, reloadOf, ret, pc, snap,
                 teardowns, own, jar, sbox, auth, arg,
                 life, due, activity, wired, tabCount>>

\* time passes between handlers
CK_Tick ==
  /\ Idle
  /\ now + TT_TAB_TIMEOUT + 1 <= CK_MaxNow
  /\ now' = now + TT_TAB_TIMEOUT + 1
  /\ Step("tick", 0, 0)
  /\ UNCHANGED <<st, registry, session, hbCookie, shb, inbox, reloadOf, ret, pc, snap,
                 teardowns, own, jar, sbox, auth, arg,
                 life, due, activity, wired, tabCount>>

CK_Next ==
  \/ \E c \in Ctx : CK_init(c)
  \/ \E c \in Ctx : CK_heartbeat(c)
  \/ \E c \in Ctx : CK_cleanupDeadTabs(c)
  \/ \E c \in Ctx : CK_unload(c)
  \/ \E c \in Ctx : CK_onTabUpdate(c)
  \/ \E form \in CK_Forms : CK_corrupt(form)
  \/ CK_Tick

SpecCK == TT_Init /\ [][CK_Next]_vars

\* ---------------------------------------------------------------------------
\* src/lib/tab-tracker.ts where the BroadcastChannel may be unavailable: the
\* page's effect calls TabTracker.getInstance(), whose constructor calls
\* new BroadcastChannel("tab_sync") unguarded, and then init().

\* broadcastTabUpdate(): postMessage() inside try/catch; a failed post
\* delivers nothing
CH_post(c, postFails, box) == IF postFails THEN box ELSE TT_post(c, box)

\* the page loads: getInstance() constructs the tracker, then init().  When
\* the channel cannot be constructed the constructor throws out of
\* getInstance(): no tracker exists and init() is never reached
CH_load(c, p, available, postFails) ==
  /\ st[c] = "new"
  /\ pc[c] = "idle"
  /\ p \in {0} \cup TT_reloadable
  /\ IF available
       THEN /\ reloadOf' = [reloadOf EXCEPT ![c] = p]
            /\ ret' = [ret EXCEPT ![c] = TT_isTrueFirstTab(p # 0, TT_getActiveTabs, session, now)]
            /\ registry' = Stored(TT_registerTab(TT_getActiveTabs, c, now))
            /\ inbox' = CH_post(c, postFails, inbox)
            /\ st' = [st EXCEPT ![c] = "active"]
            /\ teardowns' = 0
            /\ Step("register", c, 0)
       ELSE /\ Step("threw", c, 0)
            /\ UNCHANGED <<reloadOf, ret, registry, inbox, st, teardowns>>
  /\ UNCHANGED <<now, session, hbCookie, shb, pc, snap, own,
                 jar, sbox, auth, arg,
                 life, due, activity, wired, tabCount>>

CH_Next ==
  \/ \E c \in Ctx, p \in {0} \cup Ctx, available, postFails \in BOOLEAN :
       CH_load(c, p, available, postFails)
  \/ \E c \in Ctx : TT_heartbeat(c)
  \/ \E c \in Ctx : TT_cleanupDeadTabs(c)
  \/ \E c \in Ctx : TT_unload(c)
  \/ \E c \in Ctx : TT_onTabUpdate(c)
  \/ \E d \in TT_TickSteps : TT_Tick(d)

SpecCH == TT_Init /\ [][CH_Next]_vars

\* ---------------------------------------------------------------------------
\* src/unnamed/part_005: the TabTracker that keeps one counter,
\* app_tab_count, in localStorage; the session is the one of
\* src/lib/session.ts.  incrementTabCount() and decrementTabCount() read the
\* counter and write it back in two storage operations, and the pages of
\* one origin run in separate processes: another page's operations fall
\* between them.

P5_MaxBox == 1

RECURSIVE P5_toString(_)
\* newCount.toString(): the decimal digits
P5_toString(n) == IF n < 10 THEN <<n>> ELSE Append(P5_toString(n \div 10), n % 10)

RECURSIVE P5_parseInt(_)
\* Number.parseInt(count, 10) of a digit text
P5_parseInt(text) ==
  IF Len(text) = 1 THEN text[1]
  ELSE 10 * P5_parseInt(SubSeq(text, 1, Len(text) - 1)) + text[Len(text)]

\* getTabCount(): count ? Number.parseInt(count, 10) : 0
P5_getTabCount == IF tabCount = <<>> THEN 0 ELSE P5_parseInt(tabCount)

\* incrementTabCount(): newCount = currentCount + 1
P5_incremented(currentCount) == currentCount + 1

\* decrementTabCount(): newCount = Math.max(0, currentCount - 1)
P5_decremented(currentCount) == IF currentCount - 1 > 0 THEN currentCount - 1 ELSE 0

\* postMessage(): every other context with an initialized tracker receives
\* the message (at most P5_MaxBox are kept pending)
P5_post(c, box) ==
  [x \in Ctx |-> IF x # c /\ Active(x) /\ box[x] < P5_MaxBox THEN box[x] + 1 ELSE box[x]]

\* the contexts that have run init() and have not unloaded
P5_open == {c \in Ctx : st[c] = "active"}

\* init() -> incrementTabCount(), line 72: the counter is read
P5_initRead(c) ==
  /\ st[c] = "new"
  /\ pc[c] = "idle"
  /\ snap' = [snap EXCEPT ![c] = P5_getTabCount]
  /\ pc' = [pc EXCEPT ![c] = "incr"]
  /\ Step("initread", c, P5_getTabCount)
  /\ UNCHANGED <<now, st, registry, session, hbCookie, shb, inbox, reloadOf, ret,
                 teardowns, own, jar, sbox, auth, arg,
                 life, due, activity, wired, tabCount>>

\* incrementTabCount(), lines 73-88, and the rest of init(): the counter is
\* written, tab_opened is posted, the unload listener is attached
P5_initWrite(c) ==
  /\ pc[c] = "incr"
  /\ tabCount' = P5_toString(P5_incremented(snap[c]))
  /\ inbox' = P5_post(c, inbox)
  /\ st' = [st EXCEPT ![c] = "active"]
  /\ pc' = [pc EXCEPT ![c] = "idle"]
  /\ snap' = [snap EXCEPT ![c] = EmptyTabs]
  /\ Step("init", c, P5_incremented(snap[c]))
  /\ UNCHANGED <<now, registry, session, hbCookie, shb, reloadOf, ret,
                 teardowns, own, jar, sbox, auth, arg,
                 life, due, activity, wired>>

\* beforeunload -> decrementTabCount(), line 94: the counter is read
P5_unloadRead(c) ==
  /\ st[c] = "active"
  /\ pc[c] = "idle"
  /\ snap' = [snap EXCEPT ![c] = P5_getTabCount]
  /\ pc' = [pc EXCEPT ![c] = "decr"]
  /\ Step("unloadread", c, P5_getTabCount)
  /\ UNCHANGED <<now, st, registry, session, hbCookie, shb, inbox, reloadOf, ret,
                 teardowns, own, jar, sbox, auth, arg,
                 life, due, activity, wired, tabCount>>

\* decrementTabCount(), lines 95-111: the counter is written, tab_closed is
\* posted, and on a new count of 0 the session is cleared; the page is gone
P5_unloadWrite(c) ==
  /\ pc[c] = "decr"
  /\ tabCount' = P5_toString(P5_decremented(snap[c]))
  /\ inbox' = [P5_post(c, inbox) EXCEPT ![c] = 0]
  /\ IF P5_decremented(snap[c]) = 0
       THEN /\ session' = NoSession
            /\ teardowns' = Bump(teardowns)
       ELSE UNCHANGED <<session, teardowns>>
  /\ st' = [st EXCEPT ![c] = "gone"]
  /\ pc' = [pc EXCEPT ![c] = "idle"]
  /\ snap' = [snap EXCEPT ![c] = EmptyTabs]
  /\ Step("unload", c, P5_decremented(snap[c]))
  /\ UNCHANGED <<now, registry, hbCookie, shb, reloadOf, ret,
                 own, jar, sbox, auth, arg,
                 life, due, activity, wired>>

\* tab_opened or tab_closed is delivered: tabCountChange with getTabCount()
P5_onMessage(c) ==
  /\ Active(c)
  /\ pc[c] = "idle"
  /\ inbox[c] > 0
  /\ inbox' = [inbox EXCEPT ![c] = @ - 1]
  /\ Step("tabcount", c, P5_getTabCount)
  /\ UNCHANGED <<now, st, registry, session, hbCookie, shb, reloadOf, ret, pc, snap,
                 teardowns, own, jar, sbox, auth, arg,
                 life, due, activity, wired, tabCount>>

P5_Next ==
  \/ \E c \in Ctx : P5_initRead(c)
  \/ \E c \in Ctx : P5_initWrite(c)
  \/ \E c \in Ctx : P5_unloadRead(c)
  \/ \E c \in Ctx : P5_unloadWrite(c)
  \/ \E c \in Ctx : P5_onMessage(c)
  \/ \E c \in Ctx, u \in Users : SessionCreate(c, u)
  \/ \E c \in Ctx : SessionClear(c)

SpecP5 == LS_Init /\ [][P5_Next]_vars

\* ------------------------------------------------------------- claims

Tabs == registry.tabs

SessionRemoved == session.present /\ ~session'.present

\* C1 (as claimed): the session is never removed by a sweep, a tab-count
\* handler or an unload path while some context that has run init() and has
\* neither run cleanup() nor unloaded still exists.
C1_AutoTeardownOnlyAfterLastContext ==
  [][(SessionRemoved /\ last'.op \in {"sweep", "tabcount", "unload"})
       => \A c \in Ctx : ~Active(c)']_vars

\* C2 (as claimed): teardown is never immediate when the registry becomes
\* empty: the step that empties the registry leaves the session stored, so
\* that a registration within the grace delay can still cancel the teardown.
C2_TeardownNotImmediate ==
  [][(DOMAIN Tabs # {} /\ DOMAIN Tabs' = {}) => ~SessionRemoved]_vars

\* C5 (as claimed): after the live count reached 0 with no registration
\* following, the session is torn down and Logout emitted once, not several
\* times, whatever number of contexts observed the zero.
C5_AtMostOneTeardown == teardowns <= 1

\* C3 (as claimed): when the only open context reloads, its unload handler
\* leaves the stored session as it was and tears nothing down, so that the
\* init() of the page loaded next finds the session stored before the reload.
C3_ReloadKeepsSession ==
  [][\A c \in Ctx :
       (/\ last'.op = "unload" /\ last'.ctx = c
        /\ Active(c)
        /\ \A d \in Ctx \ {c} : ~Open(d))
       => (session' = session /\ teardowns' = teardowns)]_vars

NoneOpen == \A c \in Ctx : ~Open(c)

\* C4 (as claimed): once every context has closed while a session is stored,
\* and unless a context registers again, the session is eventually removed
\* from storage by a teardown that emits Logout.
C4_AllClosedLeadsToTeardown ==
  (NoneOpen /\ session.present)
    ~> ((\E c \in Ctx : Active(c)) \/ (~session.present /\ teardowns > 0))

\* C6 (as claimed): the heartbeat of an Active context whose entry is absent
\* from the registry re-inserts the entry: after any heartbeat of a context,
\* that context has an entry.
C6_HeartbeatReinserts == last.op = "heartbeat" => last.ctx \in DOMAIN Tabs

RecentSession == session.present /\ now - session.loginTime < TT_RECENT

\* C7 (as claimed): init() reports a true first tab exactly when, as the page
\* load began, the reload marker was absent (the page is not a reload), the
\* registry was empty and no session had been created within the last 10 s.
C7_FirstTabIffAllThree ==
  [][\A c \in Ctx :
       (st[c] = "new" /\ st'[c] = "active")
       => (ret'[c] <=> (reloadOf'[c] = 0 /\ DOMAIN Tabs = {} /\ ~RecentSession))]_vars

\* C10: a sweep executed at time now removes exactly the entries with
\* now - lastSeen > timeout: each of them is gone after it, every entry with
\* now - lastSeen <= timeout is still stored with the value it had, and the
\* sweep adds no entry.
C10_SweepRemovesExactlyStale ==
  [][last'.op = "sweep"
       => /\ \A k \in DOMAIN Tabs :
               now - Tabs[k].lastSeen > TT_TAB_TIMEOUT => k \notin DOMAIN Tabs'
          /\ \A k \in DOMAIN Tabs :
               now - Tabs[k].lastSeen <= TT_TAB_TIMEOUT
                 => (k \in DOMAIN Tabs' /\ Tabs'[k] = Tabs[k])
          /\ DOMAIN Tabs' \subseteq DOMAIN Tabs]_vars

\* a sweep has evicted a stale entry and kept a fresh one
C10_SweepEvictedAndKept ==
  /\ last.op = "sweep"
  /\ last.n > 0
  /\ \E k \in DOMAIN Tabs : now - Tabs[k].lastSeen <= TT_TAB_TIMEOUT

\* C8: initializeSession returns authenticated only if a structurally valid
\* session that has not expired (its cookie is there and its age is within
\* SESSION_DURATION) is stored and the start is not a true first tab; whenever
\* it returns unauthenticated, no session is stored afterwards.
C8_AuthenticatedOnlyIfValid ==
  [][\A c \in Ctx :
       (st[c] = "new" /\ st'[c] = "active")
       => /\ ret'[c] => /\ session.present
                        /\ session.username # ""
                        /\ session.loginTime # 0
                        /\ now - session.loginTime <= SM_SESSION_DURATION
                        /\ last'.op = "start"
                        /\ session'.present
          /\ ~ret'[c] => ~session'.present]_vars

\* one context started authenticated, then another started as a true first
\* tab, got unauthenticated and left no session stored
C8_BothOutcomes ==
  /\ last.op = "startfirst"
  /\ ~ret[last.ctx]
  /\ ~session.present
  /\ \E c \in Ctx : Active(c) /\ ret[c]

NoneStale == \A k \in DOMAIN Tabs : now - Tabs[k].lastSeen <= TT_TAB_TIMEOUT

\* C12: with handlers run one at a time and no entry past the timeout, the
\* count starts at 0, a register (init or visibilitychange) by C makes the
\* counted contexts those counted before plus C, a deregister (unload or
\* cleanup) by C makes them those counted before minus C, and no other step
\* changes them: the count is the number of contexts that have registered and
\* not yet deregistered.
C12_CountFollowsRegistrations ==
  [][NoneStale
       => LET expected ==
                IF last'.op \in {"register", "visible"}
                  THEN DOMAIN Tabs \cup {last'.ctx}
                  ELSE IF last'.op \in {"unload", "cleanup"}
                         THEN DOMAIN Tabs \ {last'.ctx}
                         ELSE DOMAIN Tabs
          IN  /\ DOMAIN TT_getActiveTabs' = expected
              /\ TT_getTabCount(TT_getActiveTabs') = Cardinality(expected)]_vars

\* two contexts registered, one of them has just deregistered, no entry is
\* stale and the count is 1
C12_OneOfTwoLeft ==
  /\ last.op \in {"unload", "cleanup"}
  /\ ~Active(last.ctx)
  /\ \E c \in Ctx : Active(c) /\ c # last.ctx
  /\ NoneStale
  /\ TT_getTabCount(TT_getActiveTabs) = 1

\* the session stored under SESSION_KEY of session.ts
LS_stored == LS_getSession(LS_L)

C14_SamePrincipalRefreshes ==
  [][\A c \in Ctx : \A u \in Principals :
       (LS_login(c, u) /\ LS_stored.present /\ LS_stored.username = u)
       => /\ DOMAIN jar' = {LS_SESSION_KEY}
          /\ jar'[LS_SESSION_KEY] = [username |-> u, loginTime |-> now]
          /\ auth'[c]]_vars

\* a principal with a stored session has logged in again at a later time and
\* the stored timestamp is the later one
C14_LoggedInAgainLater ==
  /\ last.op = "login"
  /\ last.n = 1
  /\ LS_stored.present
  /\ LS_stored.username = arg
  /\ LS_stored.loginTime = now
  /\ now > 1

\* C15: whatever logins and logouts the contexts have made, storage holds at
\* most one session.
C15_AtMostOneSession == Cardinality(DOMAIN jar) <= 1

\* two contexts have logged in, the later one for another principal than the
\* one stored, and one session is stored
C15_SecondLoginReplaced ==
  /\ last.op = "login"
  /\ last.n = 2
  /\ Cardinality(DOMAIN jar) = 1
  /\ \E c \in Ctx : c # last.ctx /\ auth[c]

\* C16: a logout leaves no session stored and posts logout to every other
\* context whose channel is open, also when no session was stored; with no
\* session stored it leaves storage as it was, so a second logout leaves the
\* storage of the first.
C16_LogoutIdempotentAndPosted ==
  [][\A c \in Ctx :
       LS_logout(c)
       => /\ ~LS_stored'.present
          /\ \A x \in Ctx \ {c} :
               st[x] = "active" => sbox'[x] = Append(sbox[x], [type |-> "logout"])
          /\ ~LS_stored.present => jar' = jar]_vars

\* a logout found no session stored, and another context has its logout
\* message queued
C16_LogoutWithNoSession ==
  /\ last.op = "logout"
  /\ last.n = 0
  /\ ~LS_stored.present
  /\ \E x \in Ctx \ {last.ctx} :
       sbox[x] # <<>> /\ sbox[x][Len(sbox[x])].type = "logout"

\* C17: a login (logout) in one context is queued at every other context
\* whose channel is open, and every context with a login (logout) message
\* queued eventually handles it as a sessionChange of that kind, its
\* isAuthenticated true (false) right after, unless its page goes away first.
C17_OthersFollow ==
  /\ [][\A c \in Ctx :
          ((\E u \in Principals : LS_login(c, u)) \/ LS_logout(c))
          => \A x \in Ctx \ {c} :
               st[x] = "active"
                 => sbox'[x] = Append(sbox[x], [type |-> last'.op])]_vars
  /\ \A c \in Ctx :
       (sbox[c] # <<>> /\ Head(sbox[c]).type = "login")
         ~> ((last.op = "onlogin" /\ last.ctx = c /\ auth[c]) \/ st[c] # "active")
  /\ \A c \in Ctx :
       (sbox[c] # <<>> /\ Head(sbox[c]).type = "logout")
         ~> ((last.op = "onlogout" /\ last.ctx = c /\ ~auth[c]) \/ st[c] # "active")

\* a context that was not authenticated has handled another context's login
\* and is authenticated, while the other context's session is stored
C17_FollowedLogin ==
  /\ last.op = "onlogin"
  /\ auth[last.ctx]
  /\ LS_stored.present
  /\ \E c \in Ctx \ {last.ctx} : auth[c]

\* C18: no context ever has a message of its own queued on the channel, and
\* no context is notified (sessionChange) of a login or logout it posted
\* itself: only other contexts are.
C18_NoSelfNotification ==
  /\ \A c \in Ctx : \A i \in 1 .. Len(sbox[c]) : sbox[c][i].from # c
  /\ last.op \in {"onlogin", "onlogout"} => last.n # last.ctx

\* a context logged in, the other context has just been notified of it, and
\* nothing is queued at the context that logged in
C18_OnlyOtherNotified ==
  /\ last.op = "onlogin"
  /\ last.n # last.ctx
  /\ st[last.n] = "active"
  /\ auth[last.n]
  /\ sbox[last.n] = <<>>

\* C19: the getSession() of a page load returns a session only if one is
\* stored, structurally valid and not older than SESSION_DURATION; when the
\* stored session is older than that or structurally invalid it returns
\* nothing and the session is removed from storage.
C19_GetChecksAge ==
  [][\A c \in Ctx :
       SB_load(c)
       => /\ auth'[c] => /\ session.present
                         /\ SM_validStructure(session)
                         /\ now - session.loginTime <= SM_SESSION_DURATION
          /\ (/\ session.present
              /\ \/ ~SM_validStructure(session)
                 \/ now - session.loginTime > SM_SESSION_DURATION)
             => (~auth'[c] /\ ~session'.present)]_vars

\* C20: the stored session's expiration is never later than its loginTime +
\* SESSION_DURATION, after createSession and after any later operation.
C20_ExpiresWithinDuration ==
  session.present => session.expires <= session.loginTime + SM_SESSION_DURATION

\* C24: a deregistration (the unload handler or cleanup()) that leaves no
\* entries removes the registry key from storage: the key is absent afterwards,
\* not present with an empty mapping.
C24_EmptyRegistryKeyRemoved ==
  [][\A c \in Ctx :
       ((P3_unload(c) \/ P3_cleanup(c)) /\ DOMAIN registry'.tabs = {})
         => ~registry'.present]_vars

\* C30: once cleanup() or the unload handler has deregistered a context, its
\* entry stays absent: no later step puts an entry of a cleaned-up or unloaded
\* context into the registry.
C30_DeregisteredStaysAbsent ==
  [][\A c \in Ctx :
       (st[c] \in {"down", "gone"} /\ c \notin DOMAIN Tabs)
         => c \notin DOMAIN Tabs']_vars

\* C25: a sweep that directly follows a sweep, with no other handler and no
\* lapse of time in between, leaves the registry as the first one left it,
\* writes nothing and posts no tab_update.
C25_SecondSweepChangesNothing ==
  [][\A c \in Ctx :
       (last.op = "sweep" /\ TT_cleanupDeadTabs(c))
         => (registry' = registry /\ inbox' = inbox)]_vars

\* a sweep found nothing stale while a context that a sweep evicted is still
\* open: the sweep ran again after the evicting one
C25_SweptAgainAfterEviction ==
  /\ last.op = "sweep"
  /\ last.n = 0
  /\ \E c \in Ctx : Active(c) /\ c \notin DOMAIN Tabs

\* C26: the stored session (whether it is there, whose it is and when it was
\* created) changes only in a login or an explicit logout, or when the browser
\* drops the expired cookie as time passes: the session heartbeat, the
\* validation on visibilitychange and the check at page load leave it as it is.
C26_SessionChangesOnlyByLoginLogout ==
  [][<<session.present, session.username, session.loginTime>>'
        # <<session.present, session.username, session.loginTime>>
       => \/ \E c \in Ctx, u \in Users : SM_login(c, u)
          \/ \E c \in Ctx : SM_logout(c)
          \/ \E d \in SM_TickSteps : SM_Tick(d)]_vars

\* C28: when a context stores the whole registry at the end of a register,
\* heartbeat, sweep or deregister, every entry that another context has
\* registered or renewed since that operation read the registry is still
\* stored afterwards, with the value that context gave it.
C28_WriteKeepsConcurrentEntries ==
  [][\A c \in Ctx :
       (pc[c] # "idle" /\ pc'[c] = "idle")
         => \A k \in (DOMAIN Tabs) \ {c} :
              (k \notin DOMAIN snap[c] \/ snap[c][k] # Tabs[k])
                => (k \in DOMAIN Tabs' /\ Tabs'[k] = Tabs[k])]_vars

\* C27: logout is final under interleaving: the stored session goes from
\* absent to present only in a login; a session heartbeat that read the
\* session before clearSession() removed it does not write it back.
C27_AbsentUntilNextLogin ==
  [][(~session.present /\ session'.present)
       => \E c \in Ctx, u \in Users : SM_login(c, u)]_vars

\* C21: ShuttingDown is terminal: a coordinator on which cleanup() has run is
\* never Active again; no later init() sets isInitialized, registers it or
\* restarts its timers.
C21_ShuttingDownTerminal ==
  [][\A c \in Ctx : st[c] = "down" => st'[c] # "active"]_vars

\* C22: init() called on an Active coordinator is a no-op: the registry is not
\* written, nothing is posted, no listener is added, and the coordinator (with
\* its two timers) stays as it is.
C22_InitWhileActiveIsNoOp ==
  [][\A c \in Ctx :
       (Active(c) /\ TL_init(c))
         => (registry' = registry /\ inbox' = inbox /\ life' = life /\ st' = st)]_vars

\* init() has been called on an Active coordinator, after time has passed
\* since its registration, and returned early
C22_InitCalledWhileActive ==
  /\ last.op = "init"
  /\ last.n = 0
  /\ Active(last.ctx)
  /\ last.ctx \in DOMAIN Tabs
  /\ Tabs[last.ctx].lastSeen < now

\* C23: cleanup() called on a coordinator that is already cleaned up changes
\* nothing: the stored registry and the channel and listeners of every context
\* are what they were before the call, and the coordinator stays cleaned up.
C23_SecondCleanupChangesNothing ==
  [][\A c \in Ctx :
       (st[c] = "down" /\ TL_cleanup(c))
         => (registry' = registry /\ life' = life /\ st' = st)]_vars

\* C29: a context whose heartbeat timer fires at its configured interval is
\* never evicted: while it is initialized its entry is stored, and the age of
\* its lastSeen, which any sweep would observe, is within the liveness timeout.
C29_LiveNeverStale ==
  \A c \in Ctx :
    Active(c) => (c \in DOMAIN Tabs /\ now - Tabs[c].lastSeen <= TT_TAB_TIMEOUT)

\* a sweep has run, and evicted an entry, more than the timeout after a
\* context registered that is still initialized and stored
C29_OldContextSurvivedSweep ==
  /\ last.op = "sweep"
  /\ last.n > 0
  /\ \E c \in Ctx :
       /\ Active(c)
       /\ c \in DOMAIN Tabs
       /\ now - Tabs[c].timestamp > TT_TAB_TIMEOUT

\* C31: cleanup() cancels the heartbeat and the sweep timer: no step of a
\* timer handler (updateTabHeartbeat(), cleanupDeadTabs()) of a context is
\* taken while that context is cleaned up, so none of its ticks reads or
\* writes the stored registry or the session after cleanup() returned.
C31_NoTimerTickAfterCleanup ==
  [][\A c \in Ctx :
       (TL_heartbeat(c) \/ TL_cleanupDeadTabs(c)) => st[c] # "down"]_vars

\* a context is cleaned up with no timer set, a sweep interval and more after
\* it was loaded, while the timer of another context has just fired
C31_CleanedUpWhileOthersTick ==
  /\ last.op \in {"heartbeat", "sweep"}
  /\ now > TT_CLEANUP_INTERVAL
  /\ \E c \in Ctx : st[c] = "down" /\ life[c].timers = {} /\ last.ctx # c

\* C32: whenever a sweep evicts an entry, the sweeping context itself emits a
\* tabCountChange notification with the new count: a context emits one only
\* when a tab_update is delivered to it, so after a sweep that changed the
\* registry a tab_update is on its way to the sweeping context.
C32_SweeperNotifiesItself ==
  [][\A c \in Ctx :
       (TT_cleanupDeadTabs(c) /\ registry' # registry) => inbox'[c] > 0]_vars

\* C33: whenever the tab tracker dispatches a local sessionChange of kind
\* logout (the sweep that left no tabs, or the timeout set by init() after
\* inactivity), no session is stored at that moment.
C33_LogoutNoticeMeansNoSession ==
  [][\A c \in Ctx :
       \/ P4_cleanupDeadTabs(c) /\ P4_emitsLogout(P4_getTabRegistry, now)
       \/ P4_notify(c)
       => ~session'.present]_vars

\* C34: register never fails its caller: when the store write throws,
\* init() still returns normally with the coordinator Active and both of its
\* timers started.
C34_InitSurvivesFailedWrite ==
  [][\A c \in Ctx, hasManager \in BOOLEAN :
       P4_init(c, hasManager, TRUE)
         => st'[c] = "active" /\ life'[c].timers = {"heartbeat", "cleanup"}]_vars

\* C35: while the stored registry value cannot be parsed, no registry
\* operation (register, heartbeat, sweep, deregister, count) throws: each
\* goes on as on an empty registry.
C35_UnparsableNeverThrows ==
  [][CK_unparsable(registry) => last'.op # "threw"]_vars

\* C36: when the broadcast channel cannot be constructed or a post fails,
\* loading the page does not crash: init() completes, and the context is
\* Active with its entry registered.
C36_LoadSurvivesChannelFailure ==
  [][\A c \in Ctx, p \in {0} \cup Ctx, available, postFails \in BOOLEAN :
       (CH_load(c, p, available, postFails) /\ ~(available /\ ~postFails))
         => /\ last'.op # "threw"
            /\ st'[c] = "active"
            /\ c \in DOMAIN registry'.tabs]_vars

\* C37: in the counter-based tracker, whenever no handler is under way, the
\* stored tab count is the number of contexts that have run init() and have
\* not unloaded.
C37_CountIsOpenContexts ==
  Idle => P5_getTabCount = Cardinality(P5_open)

====
